---- MODULE Spec2Model ----
(***************************************************************************)
(* Referral / coupon service (src/app.py, src/bot.py).                     *)
(*                                                                         *)
(* The program keeps all its state in a PostgreSQL database and runs one   *)
(* handler per inbound event, any number of them at once.  The model keeps *)
(* the COMMITTED rows of each table in a variable, and gives every call in *)
(* flight a slot p with a program counter pc[p] and its local variables    *)
(* call[p].  A step is one SQL statement that can wait for a row lock or   *)
(* that reads the tables, together with the statements after it that do    *)
(* neither (blind writes of the same transaction).  A statement inside     *)
(* `with db_conn() as conn:` belongs to a transaction: its writes stay     *)
(* with the slot (they are a function of pc[p] and call[p]) and reach the  *)
(* tables in the commit step, when the with-block is left; an exception    *)
(* leaves the with-block by rollback.  The database runs at its default    *)
(* isolation level, READ COMMITTED: a statement reads the rows committed   *)
(* when it starts, an UPDATE / DELETE / SELECT FOR UPDATE that meets a row *)
(* locked by another transaction waits for it, and then goes on with the   *)
(* newest committed version of that row.                                   *)
(***************************************************************************)
EXTENDS Integers, Sequences, FiniteSets, TLC

\* ------------------------------------------------------------ bounds
\* call slots (each slot runs one call and keeps its result)
MaxProcs == 2
\* rows ever inserted into coupons
MaxCoupons == 2
\* verification tokens issued to one account
MaxTokens == 2
\* writes of one device_verifications row after which no bind call starts
MaxStamp == 2

Procs == 1..MaxProcs

\* ------------------------------------------------------------ values
\* SQL NULL / Python None in a column that holds a user id or a row id
NoId == 0

Uids == {1, 2}

CouponTypes == {"500", "1000", "2000", "4000"}

\* get_redeem_rules: the hard-coded default cost table
DefaultRules == [t \in CouponTypes |->
    CASE t = "500" -> 3 [] t = "1000" -> 10 [] t = "2000" -> 25 [] OTHER -> 40]

\* rules.get(t, {}).get("points", 999999)
MissingRuleCost == 999999

\* the messages redeem_coupon returns with ok = False
InvalidOption == "Invalid option."
UserNotFound == "User not found."
VerifyFirst == "Please verify first."
NotEnoughPoints == "Not enough points."
OutOfStock == "Out of stock"

\* the messages verify_on_web returns with ok = False
MissingInput == "Missing token/device."
InvalidToken == "Invalid or expired token."
DeviceAlreadyBound == "This device is already verified with another account."
AccountAlreadyBound == "This Telegram ID is already verified on a different device."

VARIABLES
    users,      \* table users: tg_id -> row
    coupons,    \* table coupons: set of rows [id, coupon_type, code, is_used, used_by, used_at]
    nextId,     \* the serial behind coupons.id
    redeems,    \* table redeems, in insertion order
    devices,    \* table device_verifications: set of rows [device_id, tg_id, verified_at]
    rules,      \* settings row "redeem_rules" (NoRules when the row is absent)
    channels,   \* settings row "force_join_channels" (NoChannels when absent)
    member,     \* tg_id -> whether the account is in every force-join channel now
    pc,         \* slot -> position of the call it runs
    call        \* slot -> local variables of the call

vars == <<users, coupons, nextId, redeems, devices, rules, channels, member, pc, call>>

\* the settings table holds no redeem_rules row
NoRules == [t \in {} |-> 0]

\* the settings table holds no force_join_channels row
NoChannels == <<>>

\* users.state is NULL; state_data holds no "type"
NoState == ""
NoType == ""

NoCall == [op |-> "none", uid |-> NoId, t |-> "", pts |-> 0, n |-> 0,
           cand |-> <<>>, cid |-> NoId, code |-> <<>>, res |-> "",
           ref |-> NoId, token |-> <<>>, dev |-> <<>>, del |-> {}, rows |-> 0,
           seen |-> 0, verified |-> FALSE, told |-> {}, doc |-> NoRules]

\* ------------------------------------------------------------ helpers
RECURSIVE SetToSortedSeq(_)
SetToSortedSeq(S) ==
    IF S = {} THEN <<>>
    ELSE LET m == CHOOSE x \in S : \A y \in S : x <= y
         IN <<m>> \o SetToSortedSeq(S \ {m})

\* (mutant) get_redeem_rules without the read of the settings table
get_default_rules == DefaultRules

\* get_redeem_rules(): the stored document with the defaults filled in
get_redeem_rules ==
    [t \in CouponTypes |-> IF t \in DOMAIN rules THEN rules[t] ELSE DefaultRules[t]]

\* the committed coupons row with this id (callers check it exists)
CouponRow(id) == CHOOSE c \in coupons : c.id = id
CouponExists(id) == \E c \in coupons : c.id = id

\* select id from coupons where coupon_type=t and is_used=false order by id asc
UnusedIds(t) ==
    SetToSortedSeq({c.id : c \in {x \in coupons : x.coupon_type = t /\ ~x.is_used}})

\* ------------------------------------------------------------ row locks
\* pc values at which a redeem_coupon transaction holds its coupon row
RedeemHoldsCoupon == {"r_locked", "r_debited"}
\* pc values at which a redeem_coupon transaction holds its users row
RedeemHoldsUser == {"r_debited"}

\* coupon rows locked by the transaction of slot p
CouponLocks(p) ==
    IF pc[p] \in RedeemHoldsCoupon THEN {call[p].cid}
    ELSE IF pc[p] = "rm_delete" THEN call[p].del
    ELSE {}

\* users rows locked by the transaction of slot p
UserLocks(p) ==
    IF pc[p] \in RedeemHoldsUser THEN {call[p].uid}
    ELSE IF pc[p] = "a_claimed" THEN {call[p].uid}
    ELSE IF pc[p] = "a_credited" THEN {call[p].uid, call[p].ref}
    ELSE {}

CouponLockedByOther(p, id) == \E q \in Procs \ {p} : id \in CouponLocks(q)
UserLockedByOther(p, uid) == \E q \in Procs \ {p} : uid \in UserLocks(q)

\* a slot is taken when the slots before it are: the slots are interchangeable
CanStart(p) == pc[p] = "idle" /\ \A q \in Procs : q < p => pc[q] # "idle"

Return(p, res) ==
    /\ pc' = [pc EXCEPT ![p] = "done"]
    /\ call' = [call EXCEPT ![p].res = res]

\* ------------------------------------------------------------ redeem_coupon
\* lines 240-246: the class check and get_user
RedeemStart(p, uid, t) ==
    /\ CanStart(p)
    /\ LET c == [NoCall EXCEPT !.op = "redeem", !.uid = uid, !.t = t] IN
       IF t \notin CouponTypes
       THEN /\ pc' = [pc EXCEPT ![p] = "done"]
            /\ call' = [call EXCEPT ![p] = [c EXCEPT !.res = InvalidOption]]
       ELSE IF uid \notin DOMAIN users
       THEN /\ pc' = [pc EXCEPT ![p] = "done"]
            /\ call' = [call EXCEPT ![p] = [c EXCEPT !.res = UserNotFound]]
       ELSE IF ~users[uid].verified
       THEN /\ pc' = [pc EXCEPT ![p] = "done"]
            /\ call' = [call EXCEPT ![p] = [c EXCEPT !.res = VerifyFirst]]
       ELSE /\ pc' = [pc EXCEPT ![p] = "r_rules"]
            /\ call' = [call EXCEPT ![p] = [c EXCEPT !.pts = users[uid].points]]
    /\ UNCHANGED <<member, channels, users, coupons, nextId, redeems, devices, rules>>

\* (mutant) the balance test with > for >=
EnoughPointsStrict(pts, need) == pts > need

\* (mutant) no balance test
EnoughPointsAlways(pts, need) == TRUE

\* the balance test of line 250
EnoughPoints(pts, need) == ~(pts < need)

\* lines 248-251: get_redeem_rules and the balance check, on the row read before
RedeemRules(p) ==
    /\ pc[p] = "r_rules"
    /\ LET need == get_redeem_rules[call[p].t] IN
       IF EnoughPoints(call[p].pts, need)
       THEN /\ pc' = [pc EXCEPT ![p] = "r_select"]
            /\ call' = [call EXCEPT ![p].n = need]
       ELSE /\ pc' = [pc EXCEPT ![p] = "done"]
            /\ call' = [call EXCEPT ![p].n = need, ![p].res = NotEnoughPoints]
    /\ UNCHANGED <<member, channels, users, coupons, nextId, redeems, devices, rules>>

\* lines 255-264: the select starts and takes its snapshot
RedeemSelect(p) ==
    /\ pc[p] = "r_select"
    /\ pc' = [pc EXCEPT ![p] = "r_lock"]
    /\ call' = [call EXCEPT ![p].cand = UnusedIds(call[p].t),
                            ![p].seen = Len(UnusedIds(call[p].t))]
    /\ UNCHANGED <<member, channels, users, coupons, nextId, redeems, devices, rules>>

\* (mutant) the select without its `for update`: it waits for nobody
MayLockNoWait(p, id) == TRUE

\* whether the select may lock row id now: FOR UPDATE waits for another holder
MayLock(p, id) == ~CouponLockedByOther(p, id)

\* lines 255-272: `for update` with `limit 1` locks the first row of the
\* snapshot that is still an unused row once its lock is free, and passes over
\* the rows that are not; no row left is the out-of-stock return.
RedeemLock(p) ==
    /\ pc[p] = "r_lock"
    /\ IF call[p].cand = <<>>
       THEN Return(p, OutOfStock)
       ELSE LET id == Head(call[p].cand) IN
            /\ MayLock(p, id)
            /\ IF CouponExists(id) /\ ~CouponRow(id).is_used
               THEN /\ pc' = [pc EXCEPT ![p] = "r_locked"]
                    /\ call' = [call EXCEPT ![p].cid = id,
                                            ![p].code = CouponRow(id).code,
                                            ![p].cand = <<>>]
               ELSE /\ pc' = pc
                    /\ call' = [call EXCEPT ![p].cand = Tail(call[p].cand)]
    /\ UNCHANGED <<member, channels, users, coupons, nextId, redeems, devices, rules>>

\* line 272: update coupons set is_used=true ... on the row the select locked;
\* the statement follows the select without a wait
\* line 273: update users set points=points-need: waits for the users row;
\* lines 274-277: insert into redeems follows it without a wait
RedeemDebit(p) ==
    /\ pc[p] = "r_locked"
    /\ ~UserLockedByOther(p, call[p].uid)
    /\ pc' = [pc EXCEPT ![p] = "r_debited"]
    /\ UNCHANGED <<member, channels, users, coupons, nextId, redeems, devices, rules, call>>

\* (mutant) the update of line 272 without used_by
MarkUsedNoOwner(cs, id, uid) ==
    {IF c.id = id THEN [c EXCEPT !.is_used = TRUE, !.used_at = TRUE] ELSE c : c \in cs}

\* the coupons table after the update of line 272
MarkUsed(cs, id, uid) ==
    {IF c.id = id THEN [c EXCEPT !.is_used = TRUE, !.used_by = uid, !.used_at = TRUE]
     ELSE c : c \in cs}

\* (mutant) line 273 as `set points = <the balance read at line 242> - need`
DebitFromRead(us, uid, need) ==
    LET p == CHOOSE q \in Procs : pc[q] = "r_debited" /\ call[q].uid = uid
    IN [us EXCEPT ![uid].points = call[p].pts - need]

\* the users table after the update of line 273
Debit(us, uid, need) == [us EXCEPT ![uid].points = @ - need]

\* (mutant) the insert skipped when the account has a row for the class
LogRedeemOnce(rs, uid, t, code, need) ==
    IF \E i \in 1..Len(rs) : rs[i].tg_id = uid /\ rs[i].coupon_type = t
    THEN rs
    ELSE Append(rs, [tg_id |-> uid, coupon_type |-> t, coupon_code |-> code,
                     points_spent |-> need])

\* the redeems table after the insert of lines 274-277
LogRedeem(rs, uid, t, code, need) ==
    Append(rs, [tg_id |-> uid, coupon_type |-> t, coupon_code |-> code,
                points_spent |-> need])

\* leaving the with-block of line 253 normally: psycopg2 commits the three writes
RedeemCommit(p) ==
    /\ pc[p] = "r_debited"
    /\ coupons' = MarkUsed(coupons, call[p].cid, call[p].uid)
    /\ users' = Debit(users, call[p].uid, call[p].n)
    /\ redeems' = LogRedeem(redeems, call[p].uid, call[p].t, call[p].code, call[p].n)
    /\ pc' = [pc EXCEPT ![p] = "done"]
    /\ call' = [call EXCEPT ![p].res = "ok"]
    /\ UNCHANGED <<member, channels, nextId, devices, rules>>

\* (mutant) every statement commits on its own (an autocommit connection):
\* the writes made before the exception stay
RollbackPartial(p) ==
    /\ coupons' = IF pc[p] \in {"r_locked", "r_debited"}
                  THEN MarkUsed(coupons, call[p].cid, call[p].uid) ELSE coupons
    /\ users' = IF pc[p] = "r_debited"
                THEN Debit(users, call[p].uid, call[p].n) ELSE users
    /\ redeems' = redeems

\* what an exception inside the with-block of line 253 leaves in the tables:
\* psycopg2 rolls the transaction back
Rollback(p) == UNCHANGED <<users, coupons, redeems>>

\* the store fails at some statement of the transaction after the select
\* (lines 272-277); res keeps the statement the exception came from
RedeemFail(p) ==
    /\ pc[p] \in {"r_locked", "r_debited"}
    /\ Rollback(p)
    /\ pc' = [pc EXCEPT ![p] = "failed"]
    /\ call' = [call EXCEPT ![p].res = pc[p]]
    /\ UNCHANGED <<member, channels, nextId, devices, rules>>

\* ------------------------------------------------------------ add_coupons
\* a coupons row as the insert of line 215 creates it
NewCoupon(id, t, code) ==
    [id |-> id, coupon_type |-> t, code |-> code,
     is_used |-> FALSE, used_by |-> NoId, used_at |-> FALSE]

\* str.strip() on a line given as its characters
RECURSIVE LStrip(_)
LStrip(s) == IF s # <<>> /\ Head(s) = " " THEN LStrip(Tail(s)) ELSE s

RECURSIVE RStrip(_)
RStrip(s) ==
    IF s # <<>> /\ s[Len(s)] = " " THEN RStrip(SubSeq(s, 1, Len(s) - 1)) ELSE s

Strip(s) == RStrip(LStrip(s))

\* line 208: cleaned = [c.strip() for c in codes if c.strip()]
RECURSIVE Cleaned(_)
Cleaned(codes) ==
    IF codes = <<>> THEN <<>>
    ELSE IF Strip(Head(codes)) # <<>>
         THEN <<Strip(Head(codes))>> \o Cleaned(Tail(codes))
         ELSE Cleaned(Tail(codes))

\* the uniqueness of coupons.code (spec.md section 3: "code (opaque redeemable
\* string, unique)"; the table definition is not part of src/)
CodeIsFree(cs, code) == \A c \in cs : c.code # code

\* lines 213-217: the inserts of one add_coupons transaction, in order
RECURSIVE InsertAll(_, _, _, _)
InsertAll(cs, id, t, cleaned) ==
    IF cleaned = <<>> THEN cs
    ELSE InsertAll(cs \cup {NewCoupon(id, t, Head(cleaned))}, id + 1, t, Tail(cleaned))

\* whether every insert of the transaction passes the uniqueness of code
RECURSIVE InsertsPass(_, _)
InsertsPass(cs, cleaned) ==
    \/ cleaned = <<>>
    \/ /\ CodeIsFree(cs, Head(cleaned))
       /\ \A i \in 2..Len(cleaned) : cleaned[i] # Head(cleaned)
       /\ InsertsPass(cs, Tail(cleaned))

\* add_coupons (lines 205-218) when no other call runs between its inserts
\* and its commit: one step.  The transaction only inserts, so nothing of it
\* is visible before its commit; a duplicate code raises and rolls all of it
\* back.  (AddStart and AddCommit below are the call with its commit apart.)
add_coupons(t, codes) ==
    /\ nextId + Len(Cleaned(codes)) <= MaxCoupons + 1
    /\ IF t \in CouponTypes /\ Cleaned(codes) # <<>> /\ InsertsPass(coupons, Cleaned(codes))
       THEN /\ coupons' = InsertAll(coupons, nextId, t, Cleaned(codes))
            /\ nextId' = nextId + Len(Cleaned(codes))
       ELSE UNCHANGED <<coupons, nextId>>
    /\ UNCHANGED <<member, channels, users, redeems, devices, rules, pc, call>>

\* ---- add_coupons as the steps of a call in a slot
\* codes inserted and not yet committed by the add_coupons call of slot q
PendingCodes(q) ==
    IF pc[q] = "ad_inserted" THEN {call[q].cand[i] : i \in 1..Len(call[q].cand)} ELSE {}

\* the number of inserts of lines 213-217 that run: all of them, or those up
\* to the first one that breaks the uniqueness of code
RECURSIVE InsertsRun(_, _)
InsertsRun(cs, cleaned) ==
    IF cleaned = <<>> THEN 0
    ELSE IF CodeIsFree(cs, Head(cleaned))
         THEN 1 + InsertsRun(cs \cup {NewCoupon(NoId, "", Head(cleaned))}, Tail(cleaned))
         ELSE 1

\* lines 206-217: the checks and the inserts.  Every insert draws its id from
\* the serial of coupons.id when it runs (the serial is not rolled back); the
\* rows stay with the transaction until its commit.  An insert of a code that
\* another transaction has inserted and not committed waits for it.
AddStart(p, t, codes) ==
    /\ CanStart(p)
    /\ nextId + Len(Cleaned(codes)) <= MaxCoupons + 1
    /\ LET cleaned == Cleaned(codes)
           c == [NoCall EXCEPT !.op = "add", !.t = t, !.cand = cleaned]
       IN IF t \notin CouponTypes \/ cleaned = <<>>
          THEN /\ pc' = [pc EXCEPT ![p] = "done"]
               /\ call' = [call EXCEPT ![p] = c]
               /\ nextId' = nextId
          ELSE /\ \A q \in Procs \ {p}, i \in 1..Len(cleaned) : cleaned[i] \notin PendingCodes(q)
               /\ nextId' = nextId + InsertsRun(coupons, cleaned)
               /\ IF InsertsPass(coupons, cleaned)
                  THEN /\ pc' = [pc EXCEPT ![p] = "ad_inserted"]
                       /\ call' = [call EXCEPT ![p] = [c EXCEPT !.cid = nextId]]
                  ELSE /\ pc' = [pc EXCEPT ![p] = "failed"]
                       /\ call' = [call EXCEPT ![p] = [c EXCEPT !.res = "unique"]]
    /\ UNCHANGED <<member, channels, users, coupons, redeems, devices, rules>>

\* the end of the with-block of line 211: commit, and line 218
AddCommit(p) ==
    /\ pc[p] = "ad_inserted"
    /\ coupons' = InsertAll(coupons, call[p].cid, call[p].t, call[p].cand)
    /\ pc' = [pc EXCEPT ![p] = "done"]
    /\ call' = [call EXCEPT ![p].rows = Len(call[p].cand)]
    /\ UNCHANGED <<member, channels, users, nextId, redeems, devices, rules>>

\* the store fails inside the with-block of line 211: rollback
AddFail(p) ==
    /\ pc[p] = "ad_inserted"
    /\ pc' = [pc EXCEPT ![p] = "failed"]
    /\ UNCHANGED <<member, channels, users, coupons, nextId, redeems, devices, rules, call>>

\* ------------------------------------------------------------ remove_unused_coupons
\* the first n elements of a sequence
Take(s, n) == SubSeq(s, 1, IF n < Len(s) THEN n ELSE Len(s))

\* lines 221-236: the checks, then the delete starts and its sub-select
\* (coupon_type=t and is_used=false order by id asc limit count) is evaluated
RemoveStart(p, t, count) ==
    /\ CanStart(p)
    /\ LET c == [NoCall EXCEPT !.op = "remove", !.t = t, !.n = count] IN
       IF t \notin CouponTypes \/ count <= 0
       THEN /\ pc' = [pc EXCEPT ![p] = "done"]
            /\ call' = [call EXCEPT ![p] = c]
       ELSE /\ pc' = [pc EXCEPT ![p] = "rm_delete"]
            /\ call' = [call EXCEPT ![p] = [c EXCEPT !.cand = Take(UnusedIds(t), count)]]
    /\ UNCHANGED <<member, channels, users, coupons, nextId, redeems, devices, rules>>

\* Whether the delete removes row id once it holds the row's lock.  The outer
\* statement's condition is `id in (...)`: after a wait it is evaluated again
\* on the newest version of the row, whose id is the same; is_used is a
\* condition of the sub-select only, which is not evaluated again.
DeletesRow(id) == CouponExists(id)

\* lines 225-236: the delete takes the rows of its sub-select one by one,
\* waiting for a row another transaction has locked
RemoveRow(p) ==
    /\ pc[p] = "rm_delete"
    /\ call[p].cand # <<>>
    /\ LET id == Head(call[p].cand) IN
       /\ ~CouponLockedByOther(p, id)
       /\ call' = [call EXCEPT ![p].cand = Tail(call[p].cand),
                               ![p].del = IF DeletesRow(id) THEN @ \cup {id} ELSE @]
    /\ UNCHANGED <<member, channels, users, coupons, nextId, redeems, devices, rules, pc>>

\* line 237 and the end of the with-block of line 223: rowcount, commit; the
\* call returns to its caller (on_text goes on with line 471)
RemoveCommit(p) ==
    /\ pc[p] = "rm_delete"
    /\ call[p].cand = <<>>
    /\ coupons' = {c \in coupons : c.id \notin call[p].del}
    /\ pc' = [pc EXCEPT ![p] = IF call[p].op = "text" THEN "t_clear" ELSE "done"]
    /\ call' = [call EXCEPT ![p].rows = Cardinality(call[p].del)]
    /\ UNCHANGED <<member, channels, users, nextId, redeems, devices, rules>>

\* the store fails inside the with-block of line 223: rollback
RemoveFail(p) ==
    /\ pc[p] = "rm_delete"
    /\ pc' = [pc EXCEPT ![p] = "failed"]
    /\ UNCHANGED <<member, channels, users, coupons, nextId, redeems, devices, rules, call>>

\* ------------------------------------------------------------ award_referral_if_applicable
\* lines 153-156: get_user and the eligibility test (a referred_by of 0 is
\* falsy like None)
\* (mutant) the test of line 154 without `not u.get("verified")`
IneligibleUnlessVerified(new_uid) ==
    \/ new_uid \notin DOMAIN users
    \/ users[new_uid].referral_awarded
    \/ users[new_uid].referred_by = NoId

\* the test of line 154 on the row get_user returns
Ineligible(new_uid) ==
    \/ new_uid \notin DOMAIN users
    \/ ~users[new_uid].verified
    \/ users[new_uid].referral_awarded
    \/ users[new_uid].referred_by = NoId

AwardStart(p, new_uid) ==
    /\ CanStart(p)
    /\ LET c == [NoCall EXCEPT !.op = "award", !.uid = new_uid] IN
       IF Ineligible(new_uid)
       THEN /\ pc' = [pc EXCEPT ![p] = "done"]
            /\ call' = [call EXCEPT ![p] = [c EXCEPT !.res = "none"]]
       ELSE /\ pc' = [pc EXCEPT ![p] = "a_claim"]
            /\ call' = [call EXCEPT ![p] = [c EXCEPT !.ref = users[new_uid].referred_by]]
    /\ UNCHANGED <<member, channels, users, coupons, nextId, redeems, devices, rules>>

\* (mutant) the update of line 160 without `and referral_awarded=false`
ClaimRowsAlways(new_uid) == 1

\* cur.rowcount of the update of lines 159-162 on the newest committed row
ClaimRows(new_uid) == IF users[new_uid].referral_awarded THEN 0 ELSE 1

\* lines 159-164: the conditional update waits for the row of new_uid, then
\* claims the award or finds it claimed (the return inside the with-block
\* commits a transaction that wrote nothing)
AwardClaim(p) ==
    /\ pc[p] = "a_claim"
    /\ ~UserLockedByOther(p, call[p].uid)
    /\ IF ClaimRows(call[p].uid) <= 0
       THEN Return(p, "none")
       ELSE /\ pc' = [pc EXCEPT ![p] = "a_claimed"]
            /\ call' = call
    /\ UNCHANGED <<member, channels, users, coupons, nextId, redeems, devices, rules>>

\* line 165: the credit waits for the referrer's row
AwardCredit(p) ==
    /\ pc[p] = "a_claimed"
    /\ ~UserLockedByOther(p, call[p].ref)
    /\ pc' = [pc EXCEPT ![p] = "a_credited"]
    /\ UNCHANGED <<member, channels, users, coupons, nextId, redeems, devices, rules, call>>

\* (mutant) line 165 with new_uid in the place of ref
CreditCaller(us, ref) ==
    LET p == CHOOSE q \in Procs : pc[q] = "a_credited" /\ call[q].ref = ref
    IN [us EXCEPT ![call[p].uid].points = @ + 1, ![call[p].uid].referrals = @ + 1]

\* the users table after the update of line 165 (no row, no change)
Credit(us, ref) ==
    IF ref \in DOMAIN us
    THEN [us EXCEPT ![ref].points = @ + 1, ![ref].referrals = @ + 1]
    ELSE us

\* the end of the with-block of line 157: commit, and line 166: return ref
AwardCommit(p) ==
    /\ pc[p] = "a_credited"
    /\ users' = Credit([users EXCEPT ![call[p].uid].referral_awarded = TRUE], call[p].ref)
    /\ pc' = [pc EXCEPT ![p] = "done"]
    /\ call' = [call EXCEPT ![p].res = "ok"]
    /\ UNCHANGED <<member, channels, coupons, nextId, redeems, devices, rules>>

\* the store fails inside the with-block of line 157: rollback
AwardFail(p) ==
    /\ pc[p] \in {"a_claimed", "a_credited"}
    /\ pc' = [pc EXCEPT ![p] = "failed"]
    /\ call' = [call EXCEPT ![p].res = pc[p]]
    /\ UNCHANGED <<member, channels, users, coupons, nextId, redeems, devices, rules>>

\* slot p waits for a users row that slot q has locked
WaitsFor(p, q) ==
    /\ p # q
    /\ \/ pc[p] = "a_claim" /\ call[p].uid \in UserLocks(q)
       \/ pc[p] = "a_claimed" /\ call[p].ref \in UserLocks(q)
       \/ pc[p] = "r_locked" /\ call[p].uid \in UserLocks(q)

\* slots that slot p waits for, directly or through others
RECURSIVE WaitChain(_, _)
WaitChain(S, k) ==
    IF k = 0 THEN S
    ELSE WaitChain(S \cup {q \in Procs : \E r \in S : WaitsFor(r, q)}, k - 1)

InDeadlock(p) == p \in WaitChain({q \in Procs : WaitsFor(p, q)}, MaxProcs)

\* the database finds slot p in a cycle of waiting transactions and aborts
\* it: the statement raises and the with-block rolls back
DeadlockAbort(p) ==
    /\ InDeadlock(p)
    /\ pc' = [pc EXCEPT ![p] = "failed"]
    /\ call' = [call EXCEPT ![p].res = "deadlock"]
    /\ UNCHANGED <<member, channels, users, coupons, nextId, redeems, devices, rules>>

\* ------------------------------------------------------------ web verification
\* A text is the sequence of its parts; " " is white space, NoText is the
\* empty string and stands for NULL in verify_token.
NoText == <<>>

\* the values secrets.token_urlsafe(24) returns, in the order it returns them
\* to one account (no value is returned twice)
TokenNames == << <<"a1", "a2", "a3", "a4">>, <<"b1", "b2", "b3", "b4">> >>
TokenOf(uid, k) == <<TokenNames[uid][k]>>

\* how many tokens the account has been issued: its row holds the last one
Issued(uid) ==
    IF users[uid].verify_token = NoText THEN 0
    ELSE CHOOSE k \in 1..Len(TokenNames[uid]) : TokenOf(uid, k) = users[uid].verify_token

\* create_verify_token (lines 281-284): a fresh token replaces the stored one
create_verify_token(uid) ==
    /\ uid \in DOMAIN users
    /\ Issued(uid) < MaxTokens
    /\ ~\E p \in Procs : uid \in UserLocks(p)
    /\ users' = [users EXCEPT ![uid].verify_token = TokenOf(uid, Issued(uid) + 1)]
    /\ UNCHANGED <<member, channels, coupons, nextId, redeems, devices, rules, pc, call>>

\* (mutant) the select of line 292 without its where clause
AnyOwners(token) == DOMAIN users

\* check_force_join (lines 169-183): whether get_chat_member reports the
\* account in every configured channel
check_force_join(uid) == member[uid]

\* the account joins a channel it was missing from, or leaves one
Membership(uid) ==
    /\ member' = [member EXCEPT ![uid] = ~@]
    /\ UNCHANGED <<channels, users, coupons, nextId, redeems, devices, rules, pc, call>>

\* on_callback, data = "verify" (lines 488-504): the token is issued at line
\* 490, before the test of all_joined at line 492, and both replies carry the
\* link with the token; all_joined selects the text of the reply only
on_callback_verify(uid) ==
    LET all_joined == check_force_join(uid) IN
    /\ all_joined \in BOOLEAN
    /\ create_verify_token(uid)

\* line 292: select tg_id, verified from users where verify_token=%s
TokenOwners(token) == {u \in DOMAIN users : users[u].verify_token = token}

\* rows of the account with another device_id
OtherDevices(tg_id, device_id) ==
    {d \in devices : d.tg_id = tg_id /\ d.device_id # device_id}

\* how many bindings the account has, all of them to other devices
BoundElsewhere(tg_id, device_id) ==
    IF \E d \in devices : d.tg_id = tg_id /\ d.device_id = device_id
    THEN 0
    ELSE Cardinality(OtherDevices(tg_id, device_id))

\* lines 287-296: the inputs are trimmed and the token is looked up; the row
\* read is (tg_id, verified).  seen keeps how many bindings the account has
\* when the call starts, if all of them are to other devices.
VerifyStart(p, token, device_id) ==
    /\ CanStart(p)
    /\ \A d \in devices : d.verified_at < MaxStamp
    /\ LET tok == Strip(token)
           dev == Strip(device_id)
           c == [NoCall EXCEPT !.op = "verify", !.token = tok, !.dev = dev]
       IN IF tok = NoText \/ dev = NoText
          THEN /\ pc' = [pc EXCEPT ![p] = "done"]
               /\ call' = [call EXCEPT ![p] = [c EXCEPT !.res = MissingInput]]
          ELSE IF TokenOwners(tok) = {}
          THEN /\ pc' = [pc EXCEPT ![p] = "done"]
               /\ call' = [call EXCEPT ![p] = [c EXCEPT !.res = InvalidToken]]
          ELSE \E u \in TokenOwners(tok) :
               /\ pc' = [pc EXCEPT ![p] = "v_dev"]
               /\ call' = [call EXCEPT ![p] =
                             [c EXCEPT !.uid = u, !.verified = users[u].verified,
                                       !.seen = BoundElsewhere(u, dev)]]
    /\ UNCHANGED <<member, channels, users, coupons, nextId, redeems, devices, rules>>

\* lines 299-300: the device has a row, of another account
OtherOwner(device_id, tg_id) ==
    \E d \in devices : d.device_id = device_id /\ d.tg_id # tg_id

\* lines 298-301: device already used by another tg
VerifyDev(p) ==
    /\ pc[p] = "v_dev"
    /\ IF OtherOwner(call[p].dev, call[p].uid)
       THEN Return(p, DeviceAlreadyBound)
       ELSE /\ pc' = [pc EXCEPT ![p] = "v_acct"]
            /\ call' = call
    /\ UNCHANGED <<member, channels, users, coupons, nextId, redeems, devices, rules>>

\* lines 303-306: tg already locked to different device; fetchone takes any
\* one of the account's rows
VerifyAcct(p) ==
    /\ pc[p] = "v_acct"
    /\ LET mine == {d \in devices : d.tg_id = call[p].uid} IN
       \/ /\ mine = {} \/ \E d2 \in mine : d2.device_id = call[p].dev
          /\ pc' = [pc EXCEPT ![p] = "v_write"]
          /\ call' = call
       \/ /\ \E d2 \in mine : d2.device_id # call[p].dev
          /\ Return(p, AccountAlreadyBound)
    /\ UNCHANGED <<member, channels, users, coupons, nextId, redeems, devices, rules>>

\* lines 311-318: insert ... on conflict (device_id) do update set
\* tg_id=excluded.tg_id, verified_at=now().  verified_at counts the writes of
\* the row: now() of a later write is a later time.
UpsertDevice(ds, device_id, tg_id) ==
    IF \E d \in ds : d.device_id = device_id
    THEN {IF d.device_id = device_id
          THEN [d EXCEPT !.tg_id = tg_id, !.verified_at = @ + 1] ELSE d : d \in ds}
    ELSE ds \cup {[device_id |-> device_id, tg_id |-> tg_id, verified_at |-> 1]}

\* lines 308-319: the transaction of the two writes and its commit.  Both
\* writes are blind, so the transaction is one step, taken when the users
\* row is free.
VerifyWrite(p) ==
    /\ pc[p] = "v_write"
    /\ ~UserLockedByOther(p, call[p].uid)
    /\ users' = [users EXCEPT ![call[p].uid].verified = TRUE]
    /\ devices' = UpsertDevice(devices, call[p].dev, call[p].uid)
    /\ pc' = [pc EXCEPT ![p] = "done"]
    /\ call' = [call EXCEPT ![p].res = "ok"]
    /\ UNCHANGED <<member, channels, coupons, nextId, redeems, rules>>

\* the store fails inside the with-block of line 308: rollback
VerifyFail(p) ==
    /\ pc[p] = "v_write"
    /\ pc' = [pc EXCEPT ![p] = "failed"]
    /\ call' = [call EXCEPT ![p].res = pc[p]]
    /\ UNCHANGED <<member, channels, users, coupons, nextId, redeems, devices, rules>>

\* ------------------------------------------------------------ /start
\* names the platform reports for an account (username; first_name and
\* last_seen are written by the same statement, in the same way)
Names == {"ann", "bob"}

\* a users row as upsert_user creates it, then verified, with a balance
UserRow(verified, points) ==
    [username |-> "ann", verified |-> verified, points |-> points, referrals |-> 0,
     referred_by |-> NoId, referral_awarded |-> FALSE, verify_token |-> <<>>,
     state |-> NoState, state_data |-> NoType]

\* (mutant) upsert_user writing the whole row again on a conflict
upsert_replace(us, uid, username) ==
    [u \in DOMAIN us \cup {uid} |->
        IF u = uid THEN [UserRow(FALSE, 0) EXCEPT !.username = username] ELSE us[u]]

\* upsert_user (lines 107-118): the users table after insert ... on conflict
\* (tg_id) do update set username, first_name, last_seen
upsert_user(us, uid, username) ==
    [u \in DOMAIN us \cup {uid} |->
        IF u # uid THEN us[u]
        ELSE IF uid \in DOMAIN us THEN [us[uid] EXCEPT !.username = username]
        ELSE [UserRow(FALSE, 0) EXCEPT !.username = username]]

\* on_callback, line 480: every callback query touches the sender's row
\* (the statement waits while another transaction holds the row)
on_callback_upsert(uid, username) ==
    /\ ~\E p \in Procs : uid \in UserLocks(p)
    /\ users' = upsert_user(users, uid, username)
    /\ UNCHANGED <<member, channels, coupons, nextId, redeems, devices, rules, pc, call>>

\* str.isdigit() on the characters a referral link can carry
DigitChars == <<"0", "1", "2", "3", "4", "5", "6", "7", "8", "9">>
IsDigit(s) ==
    /\ s # <<>>
    /\ \A i \in 1..Len(s) : \E d \in 1..Len(DigitChars) : DigitChars[d] = s[i]

\* int() of a string of decimal digits
RECURSIVE ToInt(_)
ToInt(s) ==
    IF s = <<>> THEN 0
    ELSE 10 * ToInt(SubSeq(s, 1, Len(s) - 1))
         + ((CHOOSE d \in 1..Len(DigitChars) : DigitChars[d] = s[Len(s)]) - 1)

\* start_cmd, lines 399-404: upsert_user, then the test of context.args and
\* lines 141-142 of set_referred_by_if_needed.  args is context.args, a list
\* of strings.  rows and verified keep whether the account had a row, and
\* whether it was verified, when the command arrived.
StartCmd(p, uid, username, args) ==
    /\ CanStart(p)
    /\ ~UserLockedByOther(p, uid)
    /\ users' = upsert_user(users, uid, username)
    /\ LET c == [NoCall EXCEPT !.op = "start", !.uid = uid,
                               !.rows = IF uid \in DOMAIN users THEN 1 ELSE 0,
                               !.verified = uid \in DOMAIN users /\ users[uid].verified]
       IN IF args # <<>> /\ IsDigit(args[1]) /\ ToInt(args[1]) # uid
          THEN /\ pc' = [pc EXCEPT ![p] = "s_select"]
               /\ call' = [call EXCEPT ![p] = [c EXCEPT !.ref = ToInt(args[1])]]
          ELSE /\ pc' = [pc EXCEPT ![p] = "done"]
               /\ call' = [call EXCEPT ![p] = [c EXCEPT !.res = "ok"]]
    /\ UNCHANGED <<member, channels, coupons, nextId, redeems, devices, rules>>

\* lines 143-145: select referred_by from users where tg_id=%s
StartSelect(p) ==
    /\ pc[p] = "s_select"
    /\ IF call[p].uid \notin DOMAIN users \/ users[call[p].uid].referred_by # NoId
       THEN Return(p, "ok")
       ELSE /\ pc' = [pc EXCEPT ![p] = "s_update"]
            /\ call' = call
    /\ UNCHANGED <<member, channels, users, coupons, nextId, redeems, devices, rules>>

\* the users table after line 146: update users set referred_by=%s where tg_id=%s
SetReferredBy(us, new_uid, ref_uid) == [us EXCEPT ![new_uid].referred_by = ref_uid]

\* line 146, a transaction of its own, and the return of start_cmd
StartUpdate(p) ==
    /\ pc[p] = "s_update"
    /\ ~UserLockedByOther(p, call[p].uid)
    /\ users' = SetReferredBy(users, call[p].uid, call[p].ref)
    /\ pc' = [pc EXCEPT ![p] = "done"]
    /\ call' = [call EXCEPT ![p].res = "ok"]
    /\ UNCHANGED <<member, channels, coupons, nextId, redeems, devices, rules>>

StartSteps(p) ==
    \/ StartSelect(p)
    \/ StartUpdate(p)

\* ------------------------------------------------------------ on_callback, redeem:<t>
\* ADMIN_IDS (line 24): the operators' chat ids, in the order of the setting
AdminIds == <<7, 8>>

\* redeem_coupon has returned ok = True to the handler of slot p
RedeemReturned(p) == pc[p] = "done" /\ call[p].op = "redeem" /\ call[p].res = "ok"

\* lines 593-602: the reply with the code reaches the user and get_user
\* returns; the loop over ADMIN_IDS starts
ReplyUser(p) ==
    /\ RedeemReturned(p)
    /\ pc' = [pc EXCEPT ![p] = "n_admins"]
    /\ call' = [call EXCEPT ![p].cand = AdminIds]
    /\ UNCHANGED <<member, channels, users, coupons, nextId, redeems, devices, rules>>

\* lines 593-602: edit_message_text or get_user raises, outside any try: the
\* handler ends there and no operator is told
ReplyFail(p) ==
    /\ RedeemReturned(p)
    /\ pc' = [pc EXCEPT ![p] = "n_raised"]
    /\ UNCHANGED <<member, channels, users, coupons, nextId, redeems, devices, rules, call>>

\* (mutant) lines 604-611 without the try / except: the exception of
\* send_message leaves the handler
SendRaises(p) ==
    /\ pc' = [pc EXCEPT ![p] = "n_raised"]
    /\ call' = [call EXCEPT ![p].res = "n_admins"]

\* lines 610-611: except Exception: pass; the loop goes on with the next
\* operator
SendFails(p) ==
    /\ pc' = pc
    /\ call' = [call EXCEPT ![p].cand = Tail(@)]

\* lines 603-611: one turn of the loop; send_message reaches the operator or
\* raises
NotifyAdmin(p) ==
    /\ pc[p] = "n_admins"
    /\ call[p].cand # <<>>
    /\ \/ /\ pc' = pc
          /\ call' = [call EXCEPT ![p].cand = Tail(@),
                                  ![p].told = @ \cup {Head(call[p].cand)}]
       \/ SendFails(p)
    /\ UNCHANGED <<member, channels, users, coupons, nextId, redeems, devices, rules>>

\* line 612: the return after the loop
NotifyEnd(p) ==
    /\ pc[p] = "n_admins"
    /\ call[p].cand = <<>>
    /\ pc' = [pc EXCEPT ![p] = "n_done"]
    /\ UNCHANGED <<member, channels, users, coupons, nextId, redeems, devices, rules, call>>

NotifySteps(p) ==
    \/ ReplyUser(p)
    \/ ReplyFail(p)
    \/ NotifyAdmin(p)
    \/ NotifyEnd(p)

\* ------------------------------------------------------------ pending admin action
\* (mutant) is_admin answering yes for every account
is_anyone(uid) == TRUE

\* is_admin (lines 62-63): uid in ADMIN_IDS
is_admin(uid) == \E i \in 1..Len(AdminIds) : AdminIds[i] = uid

\* set_state (lines 123-127): update users set state, state_data where
\* tg_id = uid; t is state_data["type"] (NoType for {} and None)
set_state(us, uid, state, t) ==
    [u \in DOMAIN us |->
        IF u = uid THEN [us[u] EXCEPT !.state = state, !.state_data = t] ELSE us[u]]

\* clear_state (lines 129-130)
clear_state(us, uid) == set_state(us, uid, NoState, NoType)

\* ------------------------------------------------------------ on_text, admin_set_rule_points
\* line 445: "".join([c for c in text if c.isdigit()])
DigitsOf(text) == SelectSeq(text, LAMBDA ch : IsDigit(<<ch>>))

\* lines 443-451: the operator's text is reduced to its digits; with none the
\* handler replies and returns; otherwise get_redeem_rules is read and the
\* cost of class t replaced in the copy (max(0, int(num)))
RuleStart(p, t, text) ==
    /\ CanStart(p)
    /\ LET num == DigitsOf(text)
           c == [NoCall EXCEPT !.op = "rule", !.t = t]
       IN IF num = <<>>
          THEN /\ pc' = [pc EXCEPT ![p] = "done"]
               /\ call' = [call EXCEPT ![p] = [c EXCEPT !.res = "number"]]
          ELSE /\ pc' = [pc EXCEPT ![p] = "set_rule"]
               /\ call' = [call EXCEPT ![p] =
                             [c EXCEPT !.n = ToInt(num),
                                       !.doc = [get_redeem_rules EXCEPT ![t] = ToInt(num)]]]
    /\ UNCHANGED <<member, channels, users, coupons, nextId, redeems, devices, rules>>

\* lines 451-452 and lines 72-79: set_setting writes the whole document, in a
\* transaction of its own (insert ... on conflict (key) do update), then
\* clear_state, an update of the sender's row alone
RuleWrite(p) ==
    /\ pc[p] = "set_rule"
    /\ rules' = call[p].doc
    /\ users' = clear_state(users, call[p].uid)
    /\ pc' = [pc EXCEPT ![p] = "done"]
    /\ call' = [call EXCEPT ![p].res = "ok"]
    /\ UNCHANGED <<member, channels, coupons, nextId, redeems, devices>>


\* ------------------------------------------------------------ on_callback, admin buttons
\* callback data, split at its first ":" (line 636: data.split(":", 1))
BackMenu == <<"back_menu">>
AdminPanel == <<"admin_panel">>

\* the pending state a button sets (lines 622-658), NoState for a button
\* that sets none
StateOf(data) ==
    IF data = <<"admin_channels">> THEN "admin_set_channels"
    ELSE IF Len(data) = 2 /\ data[1] = "admin_rule" THEN "admin_set_rule_points"
    ELSE IF Len(data) = 2 /\ data[1] = "admin_add" THEN "admin_add_coupons"
    ELSE IF Len(data) = 2 /\ data[1] = "admin_rem" THEN "admin_remove_coupons"
    ELSE NoState

\* on_callback, lines 477-486 and 615-660: upsert_user; back_menu and
\* admin_panel only edit the message; a wizard button pressed by an operator
\* calls set_state; any other sender falls through every branch
Callback(p, uid, username, data) ==
    /\ CanStart(p)
    /\ ~UserLockedByOther(p, uid)
    /\ LET c == [NoCall EXCEPT !.op = "callback", !.uid = uid, !.code = data]
           us == upsert_user(users, uid, username)
       IN IF data = BackMenu
          THEN /\ users' = us
               /\ call' = [call EXCEPT ![p] = [c EXCEPT !.res = "menu"]]
          ELSE IF data = AdminPanel
          THEN /\ users' = us
               /\ call' = [call EXCEPT ![p] =
                             [c EXCEPT !.res = IF is_admin(uid) THEN "panel" ELSE "denied"]]
          ELSE IF StateOf(data) # NoState /\ is_admin(uid)
          THEN /\ users' = set_state(us, uid, StateOf(data),
                                     IF Len(data) = 2 THEN data[2] ELSE NoType)
               /\ call' = [call EXCEPT ![p] = [c EXCEPT !.res = "state"]]
          ELSE /\ users' = us
               /\ call' = [call EXCEPT ![p] = [c EXCEPT !.res = "none"]]
    /\ pc' = [pc EXCEPT ![p] = "done"]
    /\ UNCHANGED <<member, channels, coupons, nextId, redeems, devices, rules>>

\* ------------------------------------------------------------ on_text
\* a text is the sequence of its lines (text.splitlines()); the characters of
\* all lines in order
RECURSIVE Flatten(_)
Flatten(text) == IF text = <<>> THEN <<>> ELSE Head(text) \o Flatten(Tail(text))

\* lines 434-437: the first five lines, each with "@" in front unless it has
AtChannels(lines) ==
    [i \in 1..5 |-> IF lines[i][1] = "@" THEN lines[i] ELSE <<"@">> \o lines[i]]

\* on_text, line 416: upsert_user
TextStart(p, uid, username, text) ==
    /\ CanStart(p)
    /\ ~UserLockedByOther(p, uid)
    /\ users' = upsert_user(users, uid, username)
    /\ pc' = [pc EXCEPT ![p] = "t_read"]
    /\ call' = [call EXCEPT ![p] = [NoCall EXCEPT !.op = "text", !.uid = uid, !.code = text]]
    /\ UNCHANGED <<member, channels, coupons, nextId, redeems, devices, rules>>

\* on_text, lines 417-475: get_user, then the branch of the pending state.
\* admin_set_channels (428-441): fewer than five lines are refused, else
\* set_setting and clear_state.  admin_set_rule_points (443-447) and
\* admin_remove_coupons (464-469): no digit is refused, else the call goes on
\* to its next read.  admin_add_coupons (456-462): add_coupons, whose
\* transaction only inserts, then clear_state; a duplicate code raises and
\* the state stays.  Every other text gets the menu (line 475).
TextRead(p) ==
    /\ pc[p] = "t_read"
    /\ LET uid == call[p].uid
           state == users[uid].state
           t == users[uid].state_data
           lines == Cleaned(call[p].code)
           num == DigitsOf(Flatten(call[p].code))
       IN IF state = "admin_set_channels" /\ is_admin(uid)
          THEN IF Len(lines) < 5
               THEN /\ Return(p, "five")
                    /\ UNCHANGED <<users, channels, coupons, nextId>>
               ELSE /\ channels' = AtChannels(lines)
                    /\ users' = clear_state(users, uid)
                    /\ Return(p, "ok")
                    /\ UNCHANGED <<coupons, nextId>>
          ELSE IF state = "admin_set_rule_points" /\ is_admin(uid)
          THEN /\ IF num = <<>>
                  THEN Return(p, "number")
                  ELSE /\ pc' = [pc EXCEPT ![p] = "t_rule"]
                       /\ call' = [call EXCEPT ![p].t = t, ![p].n = ToInt(num)]
               /\ UNCHANGED <<users, channels, coupons, nextId>>
          ELSE IF state = "admin_add_coupons" /\ is_admin(uid)
          THEN /\ nextId + Len(lines) <= MaxCoupons + 1
               /\ IF t \notin CouponTypes \/ lines = <<>>
                  THEN /\ users' = clear_state(users, uid)
                       /\ Return(p, "ok")
                       /\ UNCHANGED <<coupons, nextId>>
                  ELSE IF InsertsPass(coupons, lines)
                  THEN /\ coupons' = InsertAll(coupons, nextId, t, lines)
                       /\ nextId' = nextId + Len(lines)
                       /\ users' = clear_state(users, uid)
                       /\ pc' = [pc EXCEPT ![p] = "done"]
                       /\ call' = [call EXCEPT ![p].t = t, ![p].rows = Len(lines),
                                               ![p].res = "ok"]
                  ELSE /\ pc' = [pc EXCEPT ![p] = "failed"]
                       /\ call' = [call EXCEPT ![p].t = t]
                       /\ UNCHANGED <<users, coupons, nextId>>
               /\ UNCHANGED channels
          ELSE IF state = "admin_remove_coupons" /\ is_admin(uid)
          THEN /\ IF num = <<>>
                  THEN Return(p, "number")
                  ELSE /\ pc' = [pc EXCEPT ![p] = "t_remove"]
                       /\ call' = [call EXCEPT ![p].t = t,
                                               ![p].n = IF ToInt(num) > 1 THEN ToInt(num) ELSE 1]
               /\ UNCHANGED <<users, channels, coupons, nextId>>
          ELSE /\ Return(p, "menu")
               /\ UNCHANGED <<users, channels, coupons, nextId>>
    /\ UNCHANGED <<member, redeems, devices, rules>>

\* lines 448-450: get_redeem_rules, and the cost of class t replaced in the
\* copy (rules[t] of a class outside the four raises KeyError)
TextRule(p) ==
    /\ pc[p] = "t_rule"
    /\ IF call[p].t \in CouponTypes
       THEN /\ pc' = [pc EXCEPT ![p] = "set_rule"]
            /\ call' = [call EXCEPT ![p].doc =
                          [get_redeem_rules EXCEPT ![call[p].t] = call[p].n]]
       ELSE /\ pc' = [pc EXCEPT ![p] = "failed"]
            /\ call' = call
    /\ UNCHANGED <<member, channels, users, coupons, nextId, redeems, devices, rules>>

\* line 470 and lines 221-236: remove_unused_coupons(t, max(1, int(num)));
\* its delete starts and the sub-select is evaluated
TextRemove(p) ==
    /\ pc[p] = "t_remove"
    /\ IF call[p].t \notin CouponTypes
       THEN /\ pc' = [pc EXCEPT ![p] = "t_clear"]
            /\ call' = call
       ELSE /\ pc' = [pc EXCEPT ![p] = "rm_delete"]
            /\ call' = [call EXCEPT ![p].cand = Take(UnusedIds(call[p].t), call[p].n)]
    /\ UNCHANGED <<member, channels, users, coupons, nextId, redeems, devices, rules>>

\* line 471: clear_state after remove_unused_coupons has returned
TextClear(p) ==
    /\ pc[p] = "t_clear"
    /\ users' = clear_state(users, call[p].uid)
    /\ Return(p, "ok")
    /\ UNCHANGED <<member, channels, coupons, nextId, redeems, devices, rules>>

TextSteps(p) ==
    \/ TextRead(p)
    \/ TextRule(p)
    \/ RuleWrite(p)
    \/ TextRemove(p)
    \/ RemoveRow(p)
    \/ RemoveCommit(p)
    \/ TextClear(p)

\* ------------------------------------------------------------ chat-only verify (src/bot.py)
\* on_callback of src/bot.py, line 440: upsert_user of the sender
ChatVerify(p, uid, username) ==
    /\ CanStart(p)
    /\ ~UserLockedByOther(p, uid)
    /\ users' = upsert_user(users, uid, username)
    /\ pc' = [pc EXCEPT ![p] = "cv_read"]
    /\ call' = [call EXCEPT ![p] = [NoCall EXCEPT !.op = "chat_verify", !.uid = uid]]
    /\ UNCHANGED <<member, channels, coupons, nextId, redeems, devices, rules>>

\* src/bot.py lines 449-461: check_force_join, then get_user; an account
\* that is missing from a channel is told to join, one that is verified
\* already goes to the reply of line 474
ChatRead(p) ==
    /\ pc[p] = "cv_read"
    /\ IF ~check_force_join(call[p].uid)
       THEN Return(p, "join")
       ELSE IF users[call[p].uid].verified
       THEN Return(p, "ok")
       ELSE /\ pc' = [pc EXCEPT ![p] = "cv_set"]
            /\ call' = call
    /\ UNCHANGED <<member, channels, users, coupons, nextId, redeems, devices, rules>>

\* src/bot.py line 462: update users set verified=true, a transaction of
\* its own
ChatSet(p) ==
    /\ pc[p] = "cv_set"
    /\ ~UserLockedByOther(p, call[p].uid)
    /\ users' = [users EXCEPT ![call[p].uid].verified = TRUE]
    /\ pc' = [pc EXCEPT ![p] = "cv_award"]
    /\ UNCHANGED <<member, channels, coupons, nextId, redeems, devices, rules, call>>

\* src/bot.py lines 463 and 162-166: award_referral_if_applicable starts:
\* get_user and the eligibility test
ChatAward(p) ==
    /\ pc[p] = "cv_award"
    /\ IF Ineligible(call[p].uid)
       THEN Return(p, "none")
       ELSE /\ pc' = [pc EXCEPT ![p] = "a_claim"]
            /\ call' = [call EXCEPT ![p].ref = users[call[p].uid].referred_by]
    /\ UNCHANGED <<member, channels, users, coupons, nextId, redeems, devices, rules>>

\* the handler fails between line 462 and the award (the process stops, or
\* the get_user of line 163 raises): nothing is rolled back, verified stays
ChatFail(p) ==
    /\ pc[p] = "cv_award"
    /\ pc' = [pc EXCEPT ![p] = "failed"]
    /\ call' = [call EXCEPT ![p].res = pc[p]]
    /\ UNCHANGED <<member, channels, users, coupons, nextId, redeems, devices, rules>>

\* ------------------------------------------------------------ specifications
\* balances account 1 starts a run with (account 2 starts with 3, the cost of
\* class 500)
InitPoints == {2, 6}

\* codes the operators enter
Alphabet == <<"A", "B", "C", "D", "E", "F">>
CodeOf(i) == <<Alphabet[i]>>

InitCommon ==
    /\ redeems = <<>>
    /\ devices = {}
    /\ rules = NoRules
    /\ channels = NoChannels
    /\ member = [u \in Uids |-> TRUE]
    /\ pc = [p \in Procs |-> "idle"]
    /\ call = [p \in Procs |-> NoCall]

\* verified accounts with a balance, no coupons yet
InitRedeem ==
    /\ InitCommon
    /\ \E b \in InitPoints : users = [u \in Uids |-> UserRow(TRUE, IF u = 1 THEN b ELSE 3)]
    /\ coupons = {}
    /\ nextId = 1

\* classes asked for in the runs
ReqTypes == {"500"}
StockTypes == {"500", "1000"}

\* verified accounts with a balance, and a stock of N unused coupons
\* (N = 0..MaxCoupons) as earlier add_coupons calls left it
InitStock ==
    /\ InitCommon
    /\ \E b \in InitPoints \cup {13} :
           users = [u \in Uids |-> UserRow(TRUE, IF u = 1 THEN b ELSE 3)]
    /\ \E n \in 0..MaxCoupons : \E ty \in [1..n -> StockTypes] :
           /\ coupons = {NewCoupon(i, ty[i], CodeOf(i)) : i \in 1..n}
           /\ nextId = n + 1

\* lists of lines the operators send to add_coupons
CodeLists == { << CodeOf(1) >>, << <<" ", "B">>, <<" ">> >>, << CodeOf(1), CodeOf(2) >> }

\* the handler of slot p has returned (or raised) and the slot takes the next event
Recycle(p) ==
    /\ pc[p] \in {"done", "failed"}
    /\ pc' = [pc EXCEPT ![p] = "idle"]
    /\ call' = [call EXCEPT ![p] = NoCall]
    /\ UNCHANGED <<member, channels, users, coupons, nextId, redeems, devices, rules>>

RedeemSteps(p) ==
    \/ RedeemRules(p)
    \/ RedeemSelect(p)
    \/ RedeemLock(p)
    \/ RedeemDebit(p)
    \/ RedeemCommit(p)
    \/ RedeemFail(p)

RemoveSteps(p) ==
    \/ RemoveRow(p)
    \/ RemoveCommit(p)
    \/ RemoveFail(p)

\* redemptions only, against a given stock
NextStock ==
    \/ \E p \in Procs, uid \in Uids, t \in StockTypes : RedeemStart(p, uid, t)
    \/ \E p \in Procs : RedeemSteps(p)

SpecStock == InitStock /\ [][NextStock]_vars

\* redemptions while the operators add and remove coupons
NextRedeem ==
    \/ \E p \in Procs, uid \in Uids, t \in ReqTypes : RedeemStart(p, uid, t)
    \/ \E p \in Procs : RedeemSteps(p)
    \/ \E p \in Procs, t \in ReqTypes, count \in {1, 2} : RemoveStart(p, t, count)
    \/ \E p \in Procs : RemoveSteps(p)
    \/ \E t \in ReqTypes, codes \in CodeLists : add_coupons(t, codes)

SpecRedeem == InitRedeem /\ [][NextRedeem]_vars

\* the same, with every slot taking event after event
NextService ==
    \/ NextRedeem
    \/ \E p \in Procs : Recycle(p)

SpecService == InitRedeem /\ [][NextService]_vars

AddSteps(p) ==
    \/ AddCommit(p)
    \/ AddFail(p)

\* lists of lines of two operators
OrderLists == { << CodeOf(1) >>, << CodeOf(2) >> }

\* redemptions while operators add coupons, every slot taking call after call
NextOrder ==
    \/ \E p \in Procs, t \in ReqTypes, codes \in OrderLists : AddStart(p, t, codes)
    \/ \E p \in Procs : AddSteps(p)
    \/ \E p \in Procs, uid \in Uids : \E t \in ReqTypes : RedeemStart(p, uid, t)
    \/ \E p \in Procs : RedeemSteps(p)
    \/ \E p \in Procs : Recycle(p)

SpecOrder == InitRedeem /\ [][NextOrder]_vars

\* accounts verified or not, with a balance around the cost of class 500, and
\* a stock of 0..MaxCoupons coupons of that class
InitRefuse ==
    /\ InitCommon
    /\ \E v \in [Uids -> BOOLEAN], b \in {2, 3} :
           users = [u \in Uids |-> UserRow(v[u], IF u = 1 THEN b ELSE 3)]
    /\ \E n \in 0..MaxCoupons :
           /\ coupons = {NewCoupon(i, "500", CodeOf(i)) : i \in 1..n}
           /\ nextId = n + 1

\* a tg_id with no users row
Stranger == 3

\* callback data redeem:<t> with a class the menu offers and one it does not
AskedTypes == {"500", "250"}

\* redemptions asked by anybody, for anything
NextRefuse ==
    \/ \E p \in Procs, uid \in Uids \cup {Stranger}, t \in AskedTypes : RedeemStart(p, uid, t)
    \/ \E p \in Procs : RedeemSteps(p)

SpecRefuse == InitRefuse /\ [][NextRefuse]_vars

\* the steps of an award call when no other transaction waits for it
AwardRun(p) ==
    \/ AwardClaim(p)
    \/ AwardCredit(p)
    \/ AwardCommit(p)
    \/ AwardFail(p)

AwardSteps(p) ==
    \/ AwardRun(p)
    \/ DeadlockAbort(p)

\* accounts after /start and verification, before any award: each account
\* verified or not, referred by the other account or by nobody
InitAward ==
    /\ InitCommon
    /\ \E v \in [Uids -> BOOLEAN], r \in [Uids -> Uids \cup {NoId}] :
          /\ \A u \in Uids : r[u] # u
          /\ users = [u \in Uids |-> [UserRow(v[u], 0) EXCEPT !.referred_by = r[u]]]
    /\ coupons = {}
    /\ nextId = 1

\* award triggers, any number of them, for any account
NextAward ==
    \/ \E p \in Procs, x \in Uids : AwardStart(p, x)
    \/ \E p \in Procs : AwardSteps(p)
    \/ \E p \in Procs : Recycle(p)

SpecAward == InitAward /\ [][NextAward]_vars

\* the same, and triggers for a tg_id with no users row
NextEligible ==
    \/ NextAward
    \/ \E p \in Procs : AwardStart(p, Stranger)

SpecEligible == InitAward /\ [][NextEligible]_vars

VerifySteps(p) ==
    \/ VerifyDev(p)
    \/ VerifyAcct(p)
    \/ VerifyWrite(p)
    \/ VerifyFail(p)

\* device ids the browsers send: two devices, and a blank one
Devs == {<<"d1">>, <<"d2">>, <<" ">>}

\* tokens the browsers send: the tokens that can be issued, the first ones
\* also with white space around them, and a blank one
SentTokens ==
    {TokenOf(u, k) : u \in Uids, k \in 1..MaxTokens}
        \cup {<<" ">> \o TokenOf(u, 1) \o <<" ">> : u \in Uids}
        \cup {<<" ">>}

\* accounts after their first contact: not verified, no token, no binding
InitVerify ==
    /\ InitCommon
    /\ users = [u \in Uids |-> UserRow(FALSE, 0)]
    /\ coupons = {}
    /\ nextId = 1

\* token issue and bind submissions
NextVerify ==
    \/ \E uid \in Uids : create_verify_token(uid)
    \/ \E p \in Procs, token \in SentTokens, device_id \in Devs :
          VerifyStart(p, token, device_id)
    \/ \E p \in Procs : VerifySteps(p)

SpecVerify == InitVerify /\ [][NextVerify]_vars

\* device ids of one browser: its stored id, and a blank one
InputDevs == {<<"d1">>, <<" ">>}

\* token issue and submissions of one browser with any token
NextInput ==
    \/ \E uid \in Uids : create_verify_token(uid)
    \/ \E p \in Procs, token \in SentTokens, device_id \in InputDevs :
          VerifyStart(p, token, device_id)
    \/ \E p \in Procs : VerifySteps(p)

SpecInput == InitVerify /\ [][NextInput]_vars

\* accounts after their first contact, in no channel yet
InitGate ==
    /\ redeems = <<>>
    /\ devices = {}
    /\ rules = NoRules
    /\ channels = NoChannels
    /\ member = [u \in Uids |-> FALSE]
    /\ pc = [p \in Procs |-> "idle"]
    /\ call = [p \in Procs |-> NoCall]
    /\ users = [u \in Uids |-> UserRow(FALSE, 0)]
    /\ coupons = {}
    /\ nextId = 1

\* accounts join and leave channels, press Verify and submit the web form
NextGate ==
    \/ \E uid \in Uids : Membership(uid)
    \/ \E uid \in Uids : on_callback_verify(uid)
    \/ \E p \in Procs, token \in SentTokens, device_id \in Devs :
          VerifyStart(p, token, device_id)
    \/ \E p \in Procs : VerifySteps(p)

SpecGate == InitGate /\ [][NextGate]_vars

\* the same, with every slot taking call after call
NextBind ==
    \/ NextVerify
    \/ \E p \in Procs : Recycle(p)

SpecBind == InitVerify /\ [][NextBind]_vars

\* account 1 after a first /start, and account 2 after a /start with or
\* without the link of account 1, before or after its bind of device d1 with
\* its first token
InitFlags ==
    /\ redeems = <<>>
    /\ rules = NoRules
    /\ channels = NoChannels
    /\ member = [u \in Uids |-> TRUE]
    /\ pc = [p \in Procs |-> "idle"]
    /\ call = [p \in Procs |-> NoCall]
    /\ coupons = {}
    /\ nextId = 1
    /\ \E v \in BOOLEAN, r \in {NoId, 1} :
          /\ users = [u \in Uids |->
                        IF u = 1 THEN UserRow(FALSE, 0)
                        ELSE [UserRow(v, 0) EXCEPT
                                 !.referred_by = r,
                                 !.verify_token = IF v THEN TokenOf(2, 1) ELSE NoText]]
          /\ devices = IF v THEN {[device_id |-> <<"d1">>, tg_id |-> 2, verified_at |-> 1]}
                             ELSE {}

\* what /start carries: nothing, or the payload of a referral link
FlagArgs == { <<>>, << <<"1">> >> }

\* the account whose flags the run sets: account 2, referred by account 1
FlagUids == {2}

\* tokens and device ids the browsers of that account send
FlagTokens == {TokenOf(u, 1) : u \in FlagUids}
FlagDevs == {<<"d1">>, <<"d2">>}

\* every handler that writes the account's row: contacts, /start, token
\* issue, bind submissions and award triggers
NextFlags ==
    \/ \E uid \in FlagUids, username \in Names : on_callback_upsert(uid, username)
    \/ \E p \in Procs, uid \in FlagUids, username \in Names, args \in FlagArgs :
          StartCmd(p, uid, username, args)
    \/ \E p \in Procs : StartSteps(p)
    \/ \E uid \in FlagUids : create_verify_token(uid)
    \/ \E p \in Procs, token \in FlagTokens, device_id \in FlagDevs :
          VerifyStart(p, token, device_id)
    \/ \E p \in Procs : VerifySteps(p)
    \/ \E p \in Procs, x \in FlagUids : AwardStart(p, x)
    \/ \E p \in Procs : AwardRun(p)

SpecFlags == InitFlags /\ [][NextFlags]_vars

\* accounts 1 and 3, and account 2 before its first contact or after a
\* /start that carried no referral link: not verified, or verified on device
\* d1
ReferUids == {1, 2, 3}

InitRefer ==
    /\ redeems = <<>>
    /\ rules = NoRules
    /\ channels = NoChannels
    /\ member = [u \in Uids |-> TRUE]
    /\ pc = [p \in Procs |-> "idle"]
    /\ call = [p \in Procs |-> NoCall]
    /\ coupons = {}
    /\ nextId = 1
    /\ \E D \in {ReferUids \ {2}, ReferUids}, v \in BOOLEAN :
          /\ v => 2 \in D
          /\ users = [u \in D |->
                        IF u # 2 THEN UserRow(FALSE, 0)
                        ELSE [UserRow(v, 0) EXCEPT
                                 !.verify_token = IF v THEN TokenOf(2, 1) ELSE NoText]]
          /\ devices = IF v THEN {[device_id |-> <<"d1">>, tg_id |-> 2, verified_at |-> 1]}
                             ELSE {}

\* what /start carries: nothing, a word, or the payload of the referral link
\* of account 1, of account 2 or of account 3
ReferArgs == { <<>>, << <<"x">> >>, << <<"1">> >>, << <<"2">> >>, << <<"3">> >> }

\* /start of account 2 with any of these, and its award triggers, every slot
\* taking call after call (award calls for one account never wait for each
\* other in a cycle)
NextRefer ==
    \/ \E p \in Procs, args \in ReferArgs : StartCmd(p, 2, "ann", args)
    \/ \E p \in Procs : StartSteps(p)
    \/ \E p \in Procs : AwardStart(p, 2)
    \/ \E p \in Procs : AwardRun(p)
    \/ \E p \in Procs : Recycle(p)

SpecRefer == InitRefer /\ [][NextRefer]_vars

\* no call is in flight
Quiet == \A q \in Procs : pc[q] \in {"idle", "done", "failed"}

\* redemptions one after the other (a user pressing the same button again
\* after the reply), against a given stock
NextRepeat ==
    \/ \E p \in Procs, uid \in Uids, t \in StockTypes : Quiet /\ RedeemStart(p, uid, t)
    \/ \E p \in Procs : RedeemSteps(p)

SpecRepeat == InitStock /\ [][NextRepeat]_vars

\* verified accounts with 6 and 3 points, and a stock of MaxCoupons unused
\* coupons of class 500
InitNotify ==
    /\ InitCommon
    /\ users = [u \in Uids |-> UserRow(TRUE, IF u = 1 THEN 6 ELSE 3)]
    /\ coupons = {NewCoupon(i, "500", CodeOf(i)) : i \in 1..MaxCoupons}
    /\ nextId = MaxCoupons + 1

\* the redeem button pressed by account 1, any number of times at once: the
\* whole handler, with the reply and the operator notifications
NextNotify ==
    \/ \E p \in Procs, t \in ReqTypes : RedeemStart(p, 1, t)
    \/ \E p \in Procs : RedeemSteps(p)
    \/ \E p \in Procs : NotifySteps(p)

SpecNotify == InitNotify /\ [][NextNotify]_vars

\* verified accounts with 13 and 3 points, a stock of two unused coupons of
\* class 500, no redeem_rules setting stored
InitRules ==
    /\ InitCommon
    /\ users = [u \in Uids |-> UserRow(TRUE, IF u = 1 THEN 13 ELSE 3)]
    /\ coupons = {NewCoupon(1, "500", CodeOf(1)), NewCoupon(2, "500", CodeOf(2))}
    /\ nextId = 3

\* the class whose cost the operators set, and the texts they send
RuleTypes == {"500"}
RuleTexts == { <<" ", "0", "5">>, <<"x">> }

\* account 1 redeems while the operators set costs, every slot taking call
\* after call
NextRules ==
    \/ \E p \in Procs, t \in RuleTypes, text \in RuleTexts : RuleStart(p, t, text)
    \/ \E p \in Procs : RuleWrite(p)
    \/ \E p \in Procs, t \in ReqTypes : RedeemStart(p, 1, t)
    \/ \E p \in Procs : RedeemSteps(p)
    \/ \E p \in Procs : Recycle(p)

SpecRules == InitRules /\ [][NextRules]_vars

\* the balances the accounts start a run with
StartPoints == [u \in Uids |-> IF u = 1 THEN 6 ELSE 3]

\* verified accounts, account 2 referred by account 1 and not awarded yet,
\* and a stock of two unused coupons of class 500
InitPointsRun ==
    /\ InitCommon
    /\ users = [u \in Uids |->
                  [UserRow(TRUE, StartPoints[u]) EXCEPT
                      !.referred_by = IF u = 2 THEN 1 ELSE NoId]]
    /\ coupons = {NewCoupon(1, "500", CodeOf(1)), NewCoupon(2, "500", CodeOf(2))}
    /\ nextId = 3

\* redemptions of both accounts and award triggers for account 2, in any
\* interleaving (an award call here never waits in a cycle)
NextPoints ==
    \/ \E p \in Procs, uid \in Uids, t \in ReqTypes : RedeemStart(p, uid, t)
    \/ \E p \in Procs : RedeemSteps(p)
    \/ \E p \in Procs : AwardStart(p, 2)
    \/ \E p \in Procs : AwardRun(p)

SpecPoints == InitPointsRun /\ [][NextPoints]_vars

\* ---- the operators' wizard
\* the classes the buttons carry and the texts the operators send
WizardTypes == {"500", "1000"}
WizardData ==
    {BackMenu, AdminPanel, <<"admin_channels">>, <<"admin_add", "500">>,
     <<"admin_rem", "500">>}
        \cup {<<"admin_rule", t>> : t \in WizardTypes}
FiveLines == << <<"a">>, <<"@", "b">>, <<"c">>, <<"d">>, <<"e">> >>
WizardTexts == { << <<"7">> >>, FiveLines }

\* the pending states a row can hold: none, or what a button has set
PendingOf(types) ==
    {<<NoState, NoType>>, <<"admin_set_channels", NoType>>}
        \cup {<<"admin_set_rule_points", t>> : t \in types}

\* both operators have rows, each with no pending action or one a button
\* has set; one unused coupon of class 500 is in stock
InitWizard ==
    /\ InitCommon
    /\ \E s7 \in PendingOf({"500"}), s8 \in PendingOf({"1000"}) :
          users = [u \in {7, 8} |->
                     [UserRow(TRUE, 0) EXCEPT !.state = IF u = 7 THEN s7[1] ELSE s8[1],
                                              !.state_data = IF u = 7 THEN s7[2] ELSE s8[2]]]
    /\ coupons = {NewCoupon(1, "500", CodeOf(1))}
    /\ nextId = 2

\* the two operators press buttons and send texts, at most MaxProcs calls
NextWizard ==
    \/ \E p \in Procs, uid \in {7, 8}, data \in WizardData : Callback(p, uid, "ann", data)
    \/ \E p \in Procs, uid \in {7, 8}, text \in WizardTexts : TextStart(p, uid, "ann", text)
    \/ \E p \in Procs : TextSteps(p)

SpecWizard == InitWizard /\ [][NextWizard]_vars

\* ---- an account outside ADMIN_IDS
\* every pending state of the wizard, for class 500, and none
AnyPending ==
    PendingOf({"500"}) \cup {<<"admin_add_coupons", "500">>, <<"admin_remove_coupons", "500">>}
GuardData == WizardData \ {<<"admin_rule", "1000">>}

\* account 1 is not an operator and its row holds any pending state (a row
\* keeps its state when ADMIN_IDS changes between two deployments); operator
\* 7 is anywhere in the wizard
InitGuard ==
    /\ InitCommon
    /\ \E s1 \in AnyPending, s7 \in AnyPending :
          users = [u \in {1, 7} |->
                     [UserRow(TRUE, 0) EXCEPT !.state = IF u = 1 THEN s1[1] ELSE s7[1],
                                              !.state_data = IF u = 1 THEN s1[2] ELSE s7[2]]]
    /\ coupons = {NewCoupon(1, "500", CodeOf(1))}
    /\ nextId = 2

\* account 1 presses any button and sends any text while operator 7 sends
\* texts
NextGuard ==
    \/ \E p \in Procs, data \in GuardData : Callback(p, 1, "ann", data)
    \/ \E p \in Procs, uid \in {1, 7}, text \in WizardTexts : TextStart(p, uid, "ann", text)
    \/ \E p \in Procs : TextSteps(p)

SpecGuard == InitGuard /\ [][NextGuard]_vars

\* ---- the chat-only variant
\* account 1 is verified; account 2 has a row, is not verified and was
\* referred by account 1; it is in the channels or not
InitChat ==
    /\ redeems = <<>>
    /\ devices = {}
    /\ rules = NoRules
    /\ channels = NoChannels
    /\ member \in {[u \in Uids |-> TRUE], [u \in Uids |-> u = 1]}
    /\ pc = [p \in Procs |-> "idle"]
    /\ call = [p \in Procs |-> NoCall]
    /\ users = [u \in Uids |->
                  IF u = 1 THEN UserRow(TRUE, 0)
                  ELSE [UserRow(FALSE, 0) EXCEPT !.referred_by = 1]]
    /\ coupons = {}
    /\ nextId = 1

\* the steps of the handler that go on when they can
ChatRun(p) ==
    \/ ChatRead(p)
    \/ ChatSet(p)
    \/ ChatAward(p)
    \/ AwardClaim(p)
    \/ AwardCredit(p)
    \/ AwardCommit(p)
    \/ Recycle(p)

\* account 2 presses the verify button again and again
NextChat ==
    \/ \E p \in Procs : ChatVerify(p, 2, "ann")
    \/ \E p \in Procs : ChatRun(p)
    \/ \E p \in Procs : ChatFail(p)
    \/ \E p \in Procs : AwardFail(p)

\* every handler that can go on does, and the button is pressed whenever a
\* slot is free; a failure may happen and need not
FairChat ==
    /\ \A p \in Procs : WF_vars(ChatRun(p))
    /\ WF_vars(\E p \in Procs : ChatVerify(p, 2, "ann"))

SpecChat == InitChat /\ [][NextChat]_vars /\ FairChat

\* ---- two operators set costs
\* both operators have pressed a cost button: 7 for class 500, 8 for class
\* 1000; no redeem_rules row is stored yet, or one with a cost for class 2000
InitCosts ==
    /\ redeems = <<>>
    /\ devices = {}
    /\ rules \in {NoRules, [DefaultRules EXCEPT !["2000"] = 30]}
    /\ channels = NoChannels
    /\ member = [u \in Uids |-> TRUE]
    /\ pc = [p \in Procs |-> "idle"]
    /\ call = [p \in Procs |-> NoCall]
    /\ users = [u \in {7, 8} |->
                  [UserRow(TRUE, 0) EXCEPT !.state = "admin_set_rule_points",
                                           !.state_data = IF u = 7 THEN "500" ELSE "1000"]]
    /\ coupons = {}
    /\ nextId = 1

\* the numbers the operators send
CostTexts == { << <<"7">> >>, << <<"1", "2">> >>, << <<"x">> >> }

\* each operator sends texts and may press its button again
NextCosts ==
    \/ \E p \in Procs, uid \in {7, 8}, text \in CostTexts : TextStart(p, uid, "ann", text)
    \/ \E p \in Procs : TextRead(p) \/ TextRule(p) \/ RuleWrite(p)
    \/ \E p \in Procs, uid \in {7, 8} :
          Callback(p, uid, "ann", <<"admin_rule", IF uid = 7 THEN "500" ELSE "1000">>)

SpecCosts == InitCosts /\ [][NextCosts]_vars

\* ------------------------------------------------------------ claims
\* slots whose redeem_coupon call for class t has returned res
Returned(t, res) ==
    {p \in Procs : pc[p] = "done" /\ call[p].op = "redeem" /\ call[p].t = t
                   /\ call[p].res = res}

\* coupons rows of class t, and the unused ones among them
OfClass(t) == {c \in coupons : c.coupon_type = t}
Unused(t) == {c \in OfClass(t) : ~c.is_used}

\* C1: with N coupons of a class in stock and no coupon added, at most N of
\* the redeem_coupon calls for the class succeed, whatever their interleaving,
\* and a call returns the out-of-stock failure only when the N coupons have
\* gone to N successful calls.
C1_AtMostStock ==
    \A t \in StockTypes :
        /\ Cardinality(Returned(t, "ok")) <= Cardinality(OfClass(t))
        /\ Returned(t, OutOfStock) # {} =>
               /\ Unused(t) = {}
               /\ Cardinality(Returned(t, "ok")) = Cardinality(OfClass(t))

\* a call that saw a coupon in stock when its select began lost it to a
\* concurrent call and returned out of stock
C1_Witness ==
    \E t \in StockTypes : \E p \in Returned(t, OutOfStock) :
        /\ call[p].seen > 0
        /\ Returned(t, "ok") # {}

\* C2: no two successful redeem_coupon calls return the same coupon code,
\* under every interleaving with add_coupons and remove_unused_coupons (each
\* successful call logs the code it returns in redeems).
C2_DistinctCodes ==
    \A i, j \in 1..Len(redeems) :
        i # j => redeems[i].coupon_code # redeems[j].coupon_code

\* C4: every account's balance is >= 0 in every reachable state.
C4_PointsNonNegative == \A u \in DOMAIN users : users[u].points >= 0

\* the step is the return of a successful redeem_coupon call of slot p
RedeemReturnsOk(p) ==
    /\ call[p].op = "redeem" /\ pc[p] # "done"
    /\ pc'[p] = "done" /\ call'[p].res = "ok"

\* the step is an exception inside the transaction of redeem_coupon in slot p
RedeemRaises(p) == call[p].op = "redeem" /\ pc[p] # "failed" /\ pc'[p] = "failed"

\* some unused coupon row is a used row after the step
SomeCouponMarked ==
    \E c \in coupons : ~c.is_used /\ \E d \in coupons' : d.id = c.id /\ d.is_used

SomeBalanceChanged == \E u \in DOMAIN users : users'[u].points # users[u].points

\* C8: the writes of redeem_coupon (coupon marked used with used_by and
\* used_at, balance debited, redeems row appended) reach the tables in one
\* step or not at all: a step that makes one of them makes all of them, and an
\* exception inside the transaction leaves coupons, balances and redeems as
\* they were, the locked coupon still unused.
C8_AllOrNothing ==
    [][ /\ (SomeCouponMarked \/ SomeBalanceChanged \/ redeems' # redeems) =>
              \E p \in Procs :
                  /\ RedeemReturnsOk(p)
                  /\ \E c \in coupons : c.id = call[p].cid /\ ~c.is_used
                  /\ \E d \in coupons' : /\ d.id = call[p].cid /\ d.is_used
                                           /\ d.used_by = call[p].uid /\ d.used_at
                  /\ users'[call[p].uid].points = users[call[p].uid].points - call[p].n
                  /\ Len(redeems') = Len(redeems) + 1
                  /\ redeems'[Len(redeems')].coupon_code = call[p].code
        /\ \A p \in Procs : RedeemRaises(p) =>
              /\ UNCHANGED <<users, coupons, redeems>>
              /\ call[p].cid # NoId =>
                    \E c \in coupons' : c.id = call[p].cid /\ ~c.is_used
      ]_vars

\* an exception after the last statement of the transaction has been seen
C8_Witness ==
    \E p \in Procs : /\ pc[p] = "failed" /\ call[p].op = "redeem"
                      /\ call[p].res = "r_debited"
                      /\ \E c \in coupons : c.id = call[p].cid /\ ~c.is_used

\* C9: a successful redeem_coupon(uid, t) returns (code, cost) such that the
\* coupon with that code is then used with used_by = uid, the balance went
\* down by exactly cost, and exactly one row (uid, t, code, cost) was
\* appended to redeems; cost is the cost the call read for class t.
C9_RedeemEffect ==
    [][ \A p \in Procs : RedeemReturnsOk(p) =>
          LET uid == call'[p].uid
              code == call'[p].code
              cost == call'[p].n
          IN /\ \E d \in coupons' : d.code = code /\ d.is_used /\ d.used_by = uid
             /\ users'[uid].points = users[uid].points - cost
             /\ redeems' = Append(redeems, [tg_id |-> uid, coupon_type |-> call'[p].t,
                                            coupon_code |-> code, points_spent |-> cost])
             /\ cost = get_redeem_rules[call'[p].t]
      ]_vars

C9_Witness ==
    \E p \in Procs :
        /\ pc[p] = "done" /\ call[p].op = "redeem" /\ call[p].res = "ok"
        /\ \E d \in coupons : d.code = call[p].code /\ d.used_by = call[p].uid
        /\ redeems # <<>>

\* slots other than p that have committed a redemption for the same account
OtherDebits(p) ==
    {q \in Procs \ {p} : /\ call[q].op = "redeem" /\ call[q].uid = call[p].uid
                          /\ pc[q] = "done" /\ call[q].res = "ok"}

\* C10: a call that reads a balance equal to the class cost passes the
\* balance check, and when it succeeds (no other call having debited the
\* account) it leaves the balance at 0; a call that reads a balance one
\* below the cost returns not-enough-points and changes no table.
C10_Boundary ==
    /\ [](\A p \in Procs :
            (/\ pc[p] = "done" /\ call[p].op = "redeem" /\ call[p].res = "ok"
             /\ call[p].pts = call[p].n /\ OtherDebits(p) = {})
            => users[call[p].uid].points = 0)
    /\ [][ \A p \in Procs : (pc[p] = "r_rules" /\ pc'[p] # "r_rules") =>
             /\ call[p].pts = call'[p].n => pc'[p] = "r_select"
             /\ call[p].pts = call'[p].n - 1 =>
                    /\ pc'[p] = "done" /\ call'[p].res = NotEnoughPoints
                    /\ UNCHANGED <<users, coupons, redeems>>
       ]_vars

\* one account spent its whole balance, another was one point short
C10_Witness ==
    /\ \E p \in Procs : /\ pc[p] = "done" /\ call[p].res = "ok"
                          /\ call[p].pts = call[p].n
                          /\ users[call[p].uid].points = 0
    /\ \E q \in Procs : /\ pc[q] = "done" /\ call[q].res = NotEnoughPoints
                          /\ call[q].pts = call[q].n - 1

\* accounts whose referral has been awarded to ref
AwardedTo(ref) ==
    {x \in DOMAIN users : users[x].referred_by = ref /\ users[x].referral_awarded}

\* C3: for a verified account X referred by R, any number of
\* award_referral_if_applicable(X) calls, in any interleaving, credit R
\* exactly once: R's points and referrals are up by one for each account
\* whose award is marked (never by two for one account), and once a call
\* for X has returned the award of X is marked.
C3_ExactlyOnce ==
    /\ \A r \in DOMAIN users :
          /\ users[r].referrals = Cardinality(AwardedTo(r))
          /\ users[r].points = Cardinality(AwardedTo(r))
    /\ \A p \in Procs :
          (/\ pc[p] = "done" /\ call[p].op = "award"
           /\ users[call[p].uid].verified
           /\ users[call[p].uid].referred_by # NoId)
          => users[call[p].uid].referral_awarded

\* two calls for one account ran at once: one returned the referrer, the
\* other passed the eligibility test and found the award claimed
C3_Witness ==
    \E p, q \in Procs :
        /\ pc[p] = "done" /\ call[p].op = "award" /\ call[p].res = "ok"
        /\ pc[q] = "done" /\ call[q].op = "award" /\ call[q].res = "none"
        /\ call[q].uid = call[p].uid /\ call[q].ref = call[p].ref
        /\ call[q].ref # NoId
        /\ users[call[p].ref].points = 1 /\ users[call[p].ref].referrals = 1

\* slots whose verify_on_web call has returned res
VerifyReturned(res) ==
    {p \in Procs : pc[p] = "done" /\ call[p].op = "verify" /\ call[p].res = res}

\* C5: of two accounts that submit their own valid tokens with the same
\* device_id, not bound before, exactly one succeeds (so never both).
C5_OneWinner ==
    \A p, q \in VerifyReturned("ok") :
        call[p].dev = call[q].dev => call[p].uid = call[q].uid

\* C6: the device bindings are one-to-one: a device_id has at most one
\* account and an account has at most one device_id.
C6_Bijection ==
    \A d1, d2 \in devices :
        (d1.device_id = d2.device_id \/ d1.tg_id = d2.tg_id) => d1 = d2

\* C7: once device_id d is bound to account A, d stays bound to A, and every
\* verify_on_web call of another account with d returns device-already-bound.
C7_BindingStable ==
    [][ \A d \in devices :
          /\ \E e \in devices' : e.device_id = d.device_id /\ e.tg_id = d.tg_id
          /\ \A p \in Procs :
                (/\ call[p].op = "verify" /\ pc[p] # "done" /\ pc'[p] = "done"
                 /\ call[p].dev = d.device_id /\ call[p].uid # d.tg_id)
                => call'[p].res = DeviceAlreadyBound
      ]_vars

\* the failures redeem_coupon returns
Refusals == {InvalidOption, UserNotFound, VerifyFirst, NotEnoughPoints, OutOfStock}

\* the step in which slot p takes a redeem_coupon call
RedeemEnters(p) == pc[p] = "idle" /\ pc'[p] # "idle" /\ call'[p].op = "redeem"

\* C11: redeem_coupon fails and changes no coupon, balance or redeems row
\* when the class is not one of the four classes (invalid option), the account
\* does not exist (not found), the account is not verified (verify first), the
\* balance it read is below the cost (not enough points), or its select finds
\* no unused coupon of the class (out of stock).
C11_Refusals ==
    [][ \A p \in Procs :
          /\ RedeemEnters(p) =>
                LET t == call'[p].t
                    uid == call'[p].uid
                    failed == pc'[p] = "done" /\ call'[p].res \in Refusals
                IN /\ t \notin CouponTypes => failed /\ call'[p].res = InvalidOption
                   /\ uid \notin DOMAIN users => failed
                   /\ (uid \in DOMAIN users /\ ~users[uid].verified) => failed
                   /\ (t \in CouponTypes /\ uid \notin DOMAIN users)
                         => call'[p].res = UserNotFound
                   /\ (t \in CouponTypes /\ uid \in DOMAIN users /\ ~users[uid].verified)
                         => call'[p].res = VerifyFirst
          /\ (pc[p] = "r_rules" /\ pc'[p] # "r_rules"
              /\ call[p].pts < get_redeem_rules[call[p].t])
                => pc'[p] = "done" /\ call'[p].res = NotEnoughPoints
          /\ (pc[p] = "r_select" /\ Unused(call[p].t) = {} /\ pc'[p] # "r_select")
                => pc'[p] = "r_lock" /\ call'[p].cand = <<>>
          /\ (pc[p] = "r_lock" /\ call[p].cand = <<>> /\ pc'[p] # "r_lock")
                => pc'[p] = "done" /\ call'[p].res = OutOfStock
          /\ (call'[p].op = "redeem" /\ pc[p] # "done" /\ pc'[p] = "done"
              /\ call'[p].res \in Refusals)
                => UNCHANGED <<users, coupons, redeems>>
      ]_vars

\* an account that is not verified and an account one point short were both
\* refused, the stock and the balances being what they were
C11_Witness ==
    \E p, q \in Procs :
        /\ pc[p] = "done" /\ call[p].op = "redeem" /\ call[p].res = VerifyFirst
        /\ pc[q] = "done" /\ call[q].op = "redeem" /\ call[q].res = NotEnoughPoints
        /\ Unused("500") # {}
        /\ redeems = <<>>

\* the lowest id among the committed unused coupons of class t
OldestUnused(t) == CHOOSE i \in {c.id : c \in Unused(t)} : \A c \in Unused(t) : i <= c.id

\* C12: every successful redeem_coupon for class t allocates the unused coupon
\* of class t with the lowest id at the moment of allocation (the moment its
\* select locks the row), so within a class the coupons go out in strictly
\* increasing id order: when a call commits, every used coupon of the class
\* has a lower id.
C12_OldestFirst ==
    [][ \A p \in Procs :
          /\ (pc[p] = "r_lock" /\ pc'[p] = "r_locked")
                => call'[p].cid = OldestUnused(call[p].t)
          /\ RedeemReturnsOk(p)
                => \A c \in OfClass(call[p].t) : c.is_used => c.id < call[p].cid
      ]_vars

\* redeems has a row of account uid with this code
Logged(uid, code) ==
    \E i \in 1..Len(redeems) :
        redeems[i].tg_id = uid /\ redeems[i].coupon_code = code

\* C13: a used coupon has used_by and used_at set and a redeems row of
\* used_by with its code; an unused coupon has no redeems row with its code;
\* a used coupon never returns to unused and never changes its used_by.
C13_UsedForGood ==
    /\ [](\A c \in coupons :
             /\ c.is_used => /\ c.used_by # NoId /\ c.used_at
                              /\ Logged(c.used_by, c.code)
             /\ ~c.is_used => \A u \in DOMAIN users : ~Logged(u, c.code))
    /\ [][ \A c \in coupons : c.is_used =>
              \A d \in coupons' : d.id = c.id => d.is_used /\ d.used_by = c.used_by
       ]_vars

\* the step is the return of a successful redeem_coupon call of some slot
SomeRedeemReturnsOk == \E p \in Procs : RedeemReturnsOk(p)

\* C14: redeems is append-only with one row for each successful
\* redeem_coupon call: a step appends one row when a call returns ok and
\* leaves redeems alone otherwise, and no step (remove_unused_coupons racing
\* with a redemption included) removes or changes a used coupon.
C14_LogKept ==
    [][ /\ IF SomeRedeemReturnsOk
           THEN Len(redeems') = Len(redeems) + 1 /\ SubSeq(redeems', 1, Len(redeems)) = redeems
           ELSE redeems' = redeems
        /\ \A c \in coupons : c.is_used => c \in coupons'
      ]_vars

\* the step in which slot p takes an award_referral_if_applicable call
AwardEnters(p) == pc[p] = "idle" /\ pc'[p] # "idle" /\ call'[p].op = "award"

\* C15: award_referral_if_applicable(X) returns no referrer and changes no
\* points, referrals or referral_awarded when X does not exist, is not
\* verified, has referral_awarded set or has no referred_by; a referrer is
\* credited only by a call for a verified account, and only verified accounts
\* have referral_awarded set.
C15_OnlyEligible ==
    /\ [](\A x \in DOMAIN users : users[x].referral_awarded => users[x].verified)
    /\ [][ /\ \A p \in Procs : AwardEnters(p) =>
                LET x == call'[p].uid IN
                (\/ x \notin DOMAIN users
                 \/ ~users[x].verified
                 \/ users[x].referral_awarded
                 \/ users[x].referred_by = NoId)
                => /\ pc'[p] = "done" /\ call'[p].res = "none" /\ call'[p].ref = NoId
                   /\ users' = users
           /\ \A r \in DOMAIN users :
                (users'[r].points # users[r].points \/ users'[r].referrals # users[r].referrals)
                => \E q \in Procs : /\ call[q].op = "award" /\ call[q].ref = r
                                      /\ pc'[q] = "done" /\ call'[q].res = "ok"
                                      /\ users[call[q].uid].verified
       ]_vars

\* a call for an account that is not verified and has a referrer, and a call
\* for a tg_id without a row, returned no referrer; nobody was credited
C15_Witness ==
    \E p, q \in Procs :
        /\ pc[p] = "done" /\ call[p].op = "award" /\ call[p].res = "none"
        /\ call[p].uid \in DOMAIN users
        /\ ~users[call[p].uid].verified /\ users[call[p].uid].referred_by # NoId
        /\ ~users[call[p].uid].referral_awarded
        /\ pc[q] = "done" /\ call[q].op = "award" /\ call[q].res = "none"
        /\ call[q].uid = Stranger
        /\ \A r \in DOMAIN users : users[r].points = 0 /\ users[r].referrals = 0

\* C16: when account A has a binding to a device d1 (and none to d2), a
\* verify_on_web call with A's valid token and device d2 fails with the
\* account-already-bound error (with the device-already-bound error of the
\* check before it when d2 is another account's) and changes neither the
\* bindings nor any account flag.
C16_SecondDevice ==
    [][ \A p \in Procs :
          (/\ call[p].op = "verify" /\ call[p].seen > 0
           /\ pc[p] \in {"v_dev", "v_acct", "v_write"} /\ pc'[p] # pc[p])
          => /\ pc'[p] \in {"v_acct", "done"}
             /\ pc'[p] = "done" =>
                   call'[p].res \in {AccountAlreadyBound, DeviceAlreadyBound}
             /\ users' = users /\ devices' = devices
      ]_vars

\* the step in which slot p takes a verify_on_web call
VerifyEnters(p) == pc[p] = "idle" /\ pc'[p] # "idle" /\ call'[p].op = "verify"

\* C17: a verify_on_web call for an account that is verified already (valid
\* token, no conflicting binding found) succeeds and does not bind again:
\* device_verifications, verified_at of an existing row included, is after
\* the call what it was before it.
C17_NoRebind ==
    [][ \A p \in Procs :
          (/\ call[p].op = "verify" /\ call[p].verified
           /\ pc[p] = "v_write" /\ pc'[p] = "done")
          => call'[p].res = "ok" /\ devices' = devices
      ]_vars

\* C18: verify_on_web fails and writes nothing when the token or the
\* device_id is empty after trimming (missing input), or when the token is no
\* account's current verify_token (invalid token).
C18_BadInput ==
    [][ \A p \in Procs : VerifyEnters(p) =>
          LET tok == call'[p].token
              dev == call'[p].dev
          IN /\ (tok = NoText \/ dev = NoText)
                   => /\ pc'[p] = "done" /\ call'[p].res = MissingInput
                      /\ users' = users /\ devices' = devices
             /\ (/\ tok # NoText /\ dev # NoText
                 /\ \A u \in DOMAIN users : users[u].verify_token # tok)
                   => /\ pc'[p] = "done" /\ call'[p].res = InvalidToken
                      /\ users' = users /\ devices' = devices
      ]_vars

\* a blank input and a token that is not the account's current one were both
\* turned down, with nobody verified and nothing bound
C18_Witness ==
    \E p, q \in Procs :
        /\ pc[p] = "done" /\ call[p].op = "verify" /\ call[p].res = MissingInput
        /\ pc[q] = "done" /\ call[q].op = "verify" /\ call[q].res = InvalidToken
        /\ call[q].token # NoText /\ call[q].dev # NoText
        /\ \E u \in DOMAIN users : users[u].verify_token # NoText
        /\ \A u \in DOMAIN users : ~users[u].verified
        /\ devices = {}

\* C19: issuing a new token for an account does not invalidate a token
\* issued to it earlier and not used yet: verify_on_web with the earlier token
\* still resolves to the account.
C19_EarlierToken ==
    [][ \A p \in Procs : VerifyEnters(p) =>
          \A u \in DOMAIN users, k \in 1..MaxTokens :
              (/\ call'[p].token = TokenOf(u, k) /\ k <= Issued(u)
               /\ ~users[u].verified /\ call'[p].dev # NoText)
              => call'[p].uid = u /\ call'[p].res # InvalidToken
      ]_vars

\* C20: no account's verified flag goes from false to true through the
\* token/bind path while the membership check reports the account missing
\* from a configured channel.
C20_MembersOnly ==
    [][ \A u \in DOMAIN users :
          (~users[u].verified /\ users'[u].verified) => check_force_join(u)
      ]_vars

\* C21: the account flags verified and referral_awarded are monotonic: no
\* step (upsert_user on a contact, /start, token reissue, bind submissions
\* that fail or succeed, award triggers) changes either flag of an account
\* from true back to false, and no step removes an account.
C21_FlagsMonotonic ==
    [][\A u \in DOMAIN users :
          /\ u \in DOMAIN users'
          /\ users[u].verified => users'[u].verified
          /\ users[u].referral_awarded => users'[u].referral_awarded]_vars

\* an account verified and awarded whose row a contact has rewritten, whose
\* token has been reissued, and whose bind to a second device failed
C21_Witness ==
    \E u \in Uids, p \in Procs :
        /\ users[u].verified /\ users[u].referral_awarded
        /\ users[u].username = "bob"
        /\ Issued(u) = MaxTokens
        /\ pc[p] = "done" /\ call[p].op = "verify" /\ call[p].uid = u
        /\ call[p].verified /\ call[p].res = AccountAlreadyBound
\* C22: referred_by of an account is set at most once and never to the
\* account itself: no step changes a referred_by that holds a value, and no
\* step leaves an account referred by itself.
C22_SetOnce ==
    [][\A u \in DOMAIN users :
          /\ users[u].referred_by # NoId => users'[u].referred_by = users[u].referred_by
          /\ users'[u].referred_by # u]_vars

\* C23: referred_by is set on the first contact only: the update of a /start
\* that found the account's row in place when it arrived leaves referred_by
\* as it was.
C23_FirstContactOnly ==
    [][\A p \in Procs :
          (call[p].op = "start" /\ call[p].rows = 1 /\ pc[p] # "done" /\ pc'[p] = "done")
          => users'[call[p].uid].referred_by = users[call[p].uid].referred_by]_vars
\* C24: a coupon is deleted only while it is unused: no step, of a
\* remove_unused_coupons call racing with redemptions included, deletes a
\* coupon row that a committed redemption has marked used.
C24_DeleteOnlyUnused ==
    [][\A c \in coupons :
          (c.is_used /\ c.used_by # NoId) => \E d \in coupons' : d.id = c.id]_vars
\* the redeems row a successful call of slot p appends
RowOf(p) ==
    [tg_id |-> call[p].uid, coupon_type |-> call[p].t,
     coupon_code |-> call[p].code, points_spent |-> call[p].n]

\* slot q ran redeem_coupon with the arguments of slot p, as the next call
\* after slot p returned ok, and no call has started since
Repeats(p, q) ==
    /\ q = p + 1
    /\ pc[p] = "done" /\ call[p].op = "redeem" /\ call[p].res = "ok"
    /\ pc[q] = "done" /\ call[q].op = "redeem"
    /\ call[q].uid = call[p].uid /\ call[q].t = call[p].t
    /\ \A r \in Procs : r > q => pc[r] = "idle"

\* C25: redeem_coupon is not idempotent: when an account repeats a call that
\* returned ok, the second call is refused only if the balance left is below
\* the cost or no unused coupon of the class is left; otherwise it returns ok
\* with another coupon, the cost is debited a second time and a second row
\* is appended to redeems.
C25_NotIdempotent ==
    \A p \in Procs, q \in Procs : Repeats(p, q) =>
        LET uid == call[p].uid
            t == call[p].t
            cost == get_redeem_rules[t]
        IN \/ /\ call[q].res = NotEnoughPoints
              /\ users[uid].points < cost
           \/ /\ call[q].res = OutOfStock
              /\ Unused(t) = {}
           \/ /\ call[q].res = "ok"
              /\ call[q].cid # call[p].cid /\ call[q].code # call[p].code
              /\ \E c \in coupons : c.id = call[p].cid /\ c.is_used /\ c.used_by = uid
              /\ \E c \in coupons : c.id = call[q].cid /\ c.is_used /\ c.used_by = uid
              /\ call[q].n = cost /\ call[p].n = cost
              /\ users[uid].points = call[p].pts - 2 * cost
              /\ \E i \in 1..Len(redeems), j \in 1..Len(redeems) :
                    i < j /\ redeems[i] = RowOf(p) /\ redeems[j] = RowOf(q)

\* the second of two calls in a row returned ok
C25_Witness ==
    \E p \in Procs, q \in Procs :
        /\ Repeats(p, q) /\ call[q].res = "ok"
        /\ call[q].code # call[p].code
        /\ Len(redeems) = 2
\* the writes of the redemption of slot p are in the tables
Committed(p) ==
    /\ \E c \in coupons : /\ c.id = call[p].cid /\ c.code = call[p].code
                           /\ c.is_used /\ c.used_by = call[p].uid
    /\ \E i \in 1..Len(redeems) : redeems[i] = RowOf(p)

\* slot p takes a step of the notification loop
NotifyStep(p) ==
    /\ pc[p] = "n_admins"
    /\ pc'[p] # pc[p] \/ call'[p] # call[p]

\* C26: the operators are told of a redemption only after its transaction
\* has committed, and no turn of the notification loop, with send_message
\* failing or not, undoes or fails the redemption: the coupon stays used, the
\* balance and redeems stay as they are, the call's result stays ok and the
\* handler goes on to the next operator or returns.
C26_NotifyAfterCommit ==
    [][\A p \in Procs :
          /\ (pc'[p] = "n_admins" \/ call'[p].told # {}) =>
                (Committed(p))'
          /\ NotifyStep(p) =>
                /\ UNCHANGED <<users, coupons, redeems>>
                /\ call'[p].res = "ok"
                /\ pc'[p] \in {"n_admins", "n_done"}]_vars

\* a handler returned after send_message failed for every operator
C26_Witness ==
    \E p \in Procs :
        /\ pc[p] = "n_done" /\ call[p].told = {}
        /\ Committed(p)
\* C27: each redeem_coupon call takes the cost of its class from the
\* settings row as it is when the call reads it: the default cost (3, 10, 25,
\* 40) when no redeem_rules row is stored, the stored value otherwise; that
\* cost, and no cost of an earlier call, is what the call debits and logs.
C27_CostAsRead ==
    [][\A p \in Procs :
          /\ (pc[p] = "r_rules" /\ pc'[p] # "r_rules") =>
                call'[p].n = IF rules = NoRules
                             THEN (CASE call[p].t = "500" -> 3 [] call[p].t = "1000" -> 10
                                     [] call[p].t = "2000" -> 25 [] OTHER -> 40)
                             ELSE rules[call[p].t]
          /\ RedeemReturnsOk(p) =>
                /\ call'[p].n = call[p].n
                /\ users'[call[p].uid].points = users[call[p].uid].points - call[p].n
                /\ redeems'[Len(redeems')].points_spent = call[p].n]_vars

\* two redemptions of the same class logged with different costs, the
\* earlier at the default cost
C27_Witness ==
    \E i \in 1..Len(redeems), j \in 1..Len(redeems) :
        /\ i < j
        /\ redeems[i].coupon_type = "500" /\ redeems[j].coupon_type = "500"
        /\ redeems[i].points_spent = 3
        /\ redeems[j].points_spent = 5
        /\ rules # NoRules
\* C28: verified and the device binding are written together: every
\* verified account has exactly one row in device_verifications.
C28_VerifiedBound ==
    \A u \in DOMAIN users :
        users[u].verified => Cardinality({d \in devices : d.tg_id = u}) = 1
\* no award_referral_if_applicable transaction is in flight
NoAwardInFlight == \A p \in Procs : pc[p] \notin {"a_claim", "a_claimed", "a_credited"}

\* accounts whose award went to ref, by their rows
AwardedFor(ref) ==
    {x \in DOMAIN users : users[x].referred_by = ref /\ users[x].referral_awarded}

\* C29: with no award transaction in flight, every account with
\* referral_awarded set has a referred_by that names an existing account, and
\* the referrals counter of every account is the number of accounts whose
\* referred_by names it and whose referral_awarded is set.
C29_FlagAndCredit ==
    NoAwardInFlight =>
        /\ \A x \in DOMAIN users :
              users[x].referral_awarded => users[x].referred_by \in DOMAIN users
        /\ \A r \in DOMAIN users : users[r].referrals = Cardinality(AwardedFor(r))
\* the sum of points_spent over the first n redeems rows of account u
RECURSIVE SpentBy(_, _)
SpentBy(u, n) ==
    IF n = 0 THEN 0
    ELSE SpentBy(u, n - 1) + (IF redeems[n].tg_id = u THEN redeems[n].points_spent ELSE 0)

\* C30: points are conserved: with no call in flight, the balance of every
\* account is its initial balance, plus one for every account awarded with it
\* as referrer, minus the points_spent of its redeems rows; a credit and a
\* debit of the same account made by overlapping transactions are both in
\* the balance.
C30_PointsConserved ==
    Quiet =>
        \A u \in DOMAIN users :
            users[u].points =
                StartPoints[u] + Cardinality(AwardedFor(u)) - SpentBy(u, Len(redeems))

\* the award for account 1 started before a redemption of account 1 and
\* committed after the redemption had read the balance; both have returned
C30_Witness ==
    \E p \in Procs, q \in Procs :
        /\ Quiet /\ q < p
        /\ pc[q] = "done" /\ call[q].op = "award" /\ call[q].res = "ok" /\ call[q].ref = 1
        /\ pc[p] = "done" /\ call[p].op = "redeem" /\ call[p].res = "ok" /\ call[p].uid = 1
        /\ call[p].pts = StartPoints[1]
        /\ users[1].points = StartPoints[1] + 1 - call[p].n
\* C31: no deadlock is reachable: in no state does a transaction in flight
\* wait for a row lock held by a transaction that waits, directly or through
\* others, for a row lock of the first.
C31_NoDeadlock == \A p \in Procs : ~InDeadlock(p)
\* the step is the return of a referrer id by the call of slot p
AwardReturnsRef(p) ==
    /\ call[p].op = "award" /\ pc[p] # "done"
    /\ pc'[p] = "done" /\ call'[p].res = "ok"

Pressed(p, data) ==
    /\ pc[p] # "done" /\ pc'[p] = "done"
    /\ call'[p].op = "callback" /\ call'[p].code = data

\* C33: the pending admin action of an account is cleared on completion and
\* on cancel: the state is null once an accepted wizard input has returned,
\* and it is null once the operator has gone back to the menu or to the
\* admin panel.
C33_ClearedOnLeave ==
    [][ \A p \in Procs :
          /\ (/\ call'[p].op = "text" /\ pc[p] # "done" /\ pc'[p] = "done"
              /\ call'[p].res = "ok")
                => users'[call'[p].uid].state = NoState
          /\ (Pressed(p, BackMenu) \/ Pressed(p, AdminPanel))
                => users'[call'[p].uid].state = NoState ]_vars

\* C33 (first half): an accepted input leaves the state null.
C33_ClearedOnAccept ==
    [][ \A p \in Procs :
          (/\ call'[p].op = "text" /\ pc[p] # "done" /\ pc'[p] = "done"
           /\ call'[p].res = "ok")
             => users'[call'[p].uid].state = NoState ]_vars

\* the account is one of ADMIN_IDS
Operator(uid) == uid \in {AdminIds[i] : i \in 1..Len(AdminIds)}

\* the ids of the coupons in stock
CouponIds(cs) == {c.id : c \in cs}

\* C34: no action of an account outside ADMIN_IDS changes the settings or
\* adds or removes coupons: every step that changes the cost table, the
\* channel list or the set of coupons is a step of a call made by an operator.
C34_OperatorsOnly ==
    [][ (\/ rules' # rules
         \/ channels' # channels
         \/ CouponIds(coupons') # CouponIds(coupons))
          => \E p \in Procs : /\ call'[p] # call[p] \/ pc'[p] # pc[p]
                              /\ Operator(call'[p].uid) ]_vars

\* account 1, outside ADMIN_IDS, holds a pending state, has sent a text and
\* pressed a wizard button, and both were answered without any write
C34_Witness ==
    /\ users[1].state = "admin_set_rule_points"
    /\ rules = NoRules /\ channels = NoChannels /\ CouponIds(coupons) = {1}
    /\ \E p, q \in Procs :
          /\ pc[p] = "done" /\ call[p].op = "text" /\ call[p].uid = 1
          /\ call[p].res = "menu"
          /\ pc[q] = "done" /\ call[q].op = "callback" /\ call[q].uid = 1
          /\ call[q].code = <<"admin_rem", "500">> /\ call[q].res = "none"

\* the remove_unused_coupons call of slot p returns in this step
RemoveReturns(p) ==
    /\ call'[p].op = "remove"
    /\ pc[p] # "done" /\ pc'[p] = "done"

\* C35: remove_unused_coupons(t, count) with a valid class and count > 0
\* deletes exactly the min(count, unused stock of t) unused coupons of class
\* t with the lowest ids and returns that number; used coupons, coupons of
\* other classes, balances and the redeems log stay as they are; with an
\* invalid class or count <= 0 nothing is deleted and 0 is returned.  (The
\* stock is the one the delete's sub-select saw; the formula bounds the
\* number of deleted rows by count.)
C35_RemoveFrame ==
    [][ \A p \in Procs : RemoveReturns(p) =>
          /\ users' = users /\ redeems' = redeems
          /\ coupons' \subseteq coupons
          /\ \A c \in coupons \ coupons' : ~c.is_used /\ c.coupon_type = call'[p].t
          /\ call'[p].rows = Cardinality(coupons \ coupons')
          /\ IF call'[p].t \in CouponTypes /\ call'[p].n > 0
             THEN Cardinality(coupons \ coupons') <= call'[p].n
             ELSE coupons' = coupons /\ call'[p].rows = 0 ]_vars

\* C36: in the chat-only variant, whenever an account with referred_by = R
\* becomes verified, R is eventually credited, provided the account keeps
\* repeating the verify action (a handler failure between the commit of
\* verified = true and the award does not lose the bonus).
C36_BonusNotLost ==
    (users[2].verified /\ users[2].referred_by = 1) ~> (users[1].referrals = 1)

\* C36 (exactly once): the referrer is never credited twice.
C36_AtMostOnce == users[1].referrals <= 1 /\ users[1].points <= 1

\* the text of slot p has set the cost of a class and returned
CostSet(p) ==
    /\ pc[p] = "done" /\ call[p].op = "text" /\ call[p].res = "ok"
    /\ call[p].t \in CouponTypes

\* C37: changing the cost of one class through the wizard leaves the stored
\* costs of the other three classes unchanged, also when two operators
\* change the costs of two different classes at overlapping times:
\* afterwards both new costs are in effect.
C37_BothCosts ==
    \A p, q \in Procs :
        (CostSet(p) /\ CostSet(q) /\ call[p].t # call[q].t)
            => /\ get_redeem_rules[call[p].t] = call[p].n
               /\ get_redeem_rules[call[q].t] = call[q].n

\* C37 (one operator): the write of a cost change differs from the cost
\* table read by the same call in the changed class only.
C37_OthersAsRead ==
    [][ \A p \in Procs : (pc[p] = "set_rule" /\ pc'[p] = "done") =>
          \A t \in CouponTypes \ {call[p].t} :
              rules'[t] = call[p].doc[t] ]_vars

====
